---------------------------- MODULE Spec2Model ----------------------------
(***************************************************************************)
(* Verification model of the citation_extraction text pipeline.            *)
(*                                                                         *)
(* A text is a sequence of one-character strings.  Python string indices   *)
(* are 0-based and half open, so the character at Python index i of s is   *)
(* s[i+1] and s[a:b] is SubSeq(s, a+1, b).                                 *)
(*                                                                         *)
(* The regular expressions of the source are kept as syntax trees and are  *)
(* run by a backtracking matcher with the priorities of Python's re        *)
(* module (leftmost start, first alternative first, greedy or lazy         *)
(* repetition), so every pattern below is a transliteration of the         *)
(* pattern in the source.                                                  *)
(***************************************************************************)
EXTENDS Integers, Sequences, FiniteSets, TLC

(***************************************************************************)
(* Character classes of Python's re module for str patterns.  The three    *)
(* accented letters of the month table are written e' (e acute), u^ (u     *)
(* circumflex) and a: (a umlaut), and ar3 is the Arabic-Indic digit three   *)
(* (U+0663); each is one character.                                        *)
(***************************************************************************)
DigitSeq == <<"0", "1", "2", "3", "4", "5", "6", "7", "8", "9">>

\* [0-9]
Digit == {DigitSeq[i] : i \in 1..Len(DigitSeq)}

\* \d of a str pattern: every Unicode decimal digit
DigitAny == Digit \cup {"ar3"}

UpperSeq == <<"A", "B", "C", "D", "E", "F", "G", "H", "I", "J", "K", "L", "M",
              "N", "O", "P", "Q", "R", "S", "T", "U", "V", "W", "X", "Y", "Z",
              "E'", "U^", "A:">>

LowerSeq == <<"a", "b", "c", "d", "e", "f", "g", "h", "i", "j", "k", "l", "m",
              "n", "o", "p", "q", "r", "s", "t", "u", "v", "w", "x", "y", "z",
              "e'", "u^", "a:">>

Range(f) == {f[i] : i \in DOMAIN f}

Upper == Range(UpperSeq)

Lower == Range(LowerSeq)

AsciiUpper == {UpperSeq[i] : i \in 1..26}

\* \s
SpaceCh == {" ", "\t", "\n", "\r", "\f"}

\* \w
WordCh == Upper \cup Lower \cup DigitAny \cup {"_"}

\* the characters of the texts
Chars ==
    WordCh \cup SpaceCh \cup {".", ",", ":", ";", "-", ">", "?", "!", "/", "(", ")", "[", "]"}

ToLower == [ch \in Upper |-> LowerSeq[CHOOSE i \in DOMAIN UpperSeq : UpperSeq[i] = ch]]

ToUpper == [ch \in Lower |-> UpperSeq[CHOOSE i \in DOMAIN LowerSeq : LowerSeq[i] = ch]]

\* str.lower() of one character
LowerOf(ch) == IF ch \in Upper THEN ToLower[ch] ELSE ch

\* str.upper() of one character
UpperOf(ch) == IF ch \in Lower THEN ToUpper[ch] ELSE ch

\* a character class closed under case, as re.IGNORECASE reads it
FoldCase(S) == S \cup {LowerOf(ch) : ch \in S} \cup {UpperOf(ch) : ch \in S}

(***************************************************************************)
(* Regular-expression syntax trees.  Rep, RepLazy, Star and Plus repeat a  *)
(* character class (every counted repetition of the source patterns is     *)
(* over one); Opt is X? for any X.                                         *)
(***************************************************************************)
Unbounded == 0 - 1

Ch(S) == <<"set", S>>

\* [^...] and \D
NotCh(S) == <<"set", Chars \ S>>

Lit(w) == <<"seq", [i \in 1..Len(w) |-> {w[i]}]>>

Cat(ns) == <<"cat", ns>>

Alt(ns) == <<"alt", ns>>

Rep(n, lo, hi) == <<"rep", n[2], lo, hi, TRUE>>

RepLazy(n, lo, hi) == <<"rep", n[2], lo, hi, FALSE>>

Opt(n) == <<"opt", n>>

Star(n) == Rep(n, 0, Unbounded)

Plus(n) == Rep(n, 1, Unbounded)

Grp(g, n) == <<"grp", g, n>>

Bol == <<"bol">>

Eol == <<"eol">>

WordB == <<"wb">>

NegLook(n) == <<"nla", n>>

\* re.compile(pattern, re.IGNORECASE)
RECURSIVE IgnoreCase(_)
IgnoreCase(n) ==
    CASE n[1] = "set" -> <<"set", FoldCase(n[2])>>
      [] n[1] = "seq" -> <<"seq", [i \in DOMAIN n[2] |-> FoldCase(n[2][i])]>>
      [] n[1] = "rep" -> <<"rep", FoldCase(n[2]), n[3], n[4], n[5]>>
      [] n[1] \in {"cat", "alt"} -> <<n[1], [i \in DOMAIN n[2] |-> IgnoreCase(n[2][i])]>>
      [] n[1] \in {"opt", "nla"} -> <<n[1], IgnoreCase(n[2])>>
      [] n[1] = "grp" -> <<"grp", n[2], IgnoreCase(n[3])>>
      [] OTHER -> n

\* the capture groups a caller reads
Groups == 1..4

NoCaps == [g \in Groups |-> <<0 - 1, 0 - 1>>]

NoMatch == [ok |-> FALSE, b |-> 0, e |-> 0, c |-> NoCaps]

IsWordAt(s, i) == i >= 1 /\ i <= Len(s) /\ s[i] \in WordCh

\* the members of the lists ls, in order of first appearance
ConcatDistinct(ls) ==
    LET E == UNION {{ls[j][b] : b \in 1..Len(ls[j])} : j \in 1..Len(ls)}
        FirstJ(x) == CHOOSE j \in 1..Len(ls) :
                        /\ \E b \in 1..Len(ls[j]) : ls[j][b] = x
                        /\ \A j2 \in 1..(j - 1) : \A b \in 1..Len(ls[j2]) : ls[j2][b] # x
        Idx(x) == CHOOSE b \in 1..Len(ls[FirstJ(x)]) :
                        /\ ls[FirstJ(x)][b] = x
                        /\ \A b2 \in 1..(b - 1) : ls[FirstJ(x)][b2] # x
        Before(x, y) == \/ FirstJ(x) < FirstJ(y)
                        \/ FirstJ(x) = FirstJ(y) /\ Idx(x) < Idx(y)
    IN  IF E = {} THEN <<>>
        ELSE IF Cardinality(E) = 1 THEN <<CHOOSE x \in E : TRUE>>
        ELSE [t \in 1..Cardinality(E) |->
                CHOOSE x \in E : Cardinality({y \in E : Before(y, x)}) = t - 1] \o <<>>

\* the number of leading characters of s from index i that lie in S, at most cap
RunLength(s, i, S, cap) ==
    Cardinality({m \in 1..cap : \A j \in 1..m : s[i + j] \in S})

(***************************************************************************)
(* M(n, s, st): the ways pattern n matches s from the state st (an end     *)
(* index and the captures so far), as the distinct resulting states in the *)
(* order a backtracking matcher tries them: first alternative first, the   *)
(* longest repetition first when greedy and the shortest when lazy.        *)
(***************************************************************************)
\* the states after most, most - 1, ..., lo repetitions (greedy) or lo, ..., most (lazy)
RepStates(st, lo, most, greedy) ==
    IF most < lo THEN <<>>
    ELSE [t \in 1..(most - lo + 1) |->
            [st EXCEPT !.e = IF greedy THEN st.e + most - t + 1 ELSE st.e + lo + t - 1]] \o <<>>

\* the states r of a group's body, with the group's span recorded
GroupStates(r, g, i) == [a \in 1..Len(r) |-> [r[a] EXCEPT !.c[g] = <<i, r[a].e>>]] \o <<>>

RECURSIVE M(_, _, _)
RECURSIVE MCat(_, _, _, _)
M(n, s, st) ==
    LET i == st.e
        tag == n[1]
    IN  CASE tag = "set" ->
               IF i < Len(s) /\ s[i + 1] \in n[2] THEN <<[st EXCEPT !.e = i + 1]>> ELSE <<>>
          [] tag = "seq" ->
               IF i + Len(n[2]) <= Len(s) /\ \A j \in 1..Len(n[2]) : s[i + j] \in n[2][j]
               THEN <<[st EXCEPT !.e = i + Len(n[2])]>> ELSE <<>>
          [] tag = "rep" ->
               RepStates(st, n[3],
                         RunLength(s, i, n[2],
                                   IF n[4] >= 0 /\ n[4] < Len(s) - i THEN n[4] ELSE Len(s) - i),
                         n[5])
          [] tag = "opt" -> ConcatDistinct(<<M(n[2], s, st), <<st>>>>)
          [] tag = "cat" -> MCat(n[2], 1, s, <<st>>)
          [] tag = "alt" -> ConcatDistinct([j \in 1..Len(n[2]) |-> M(n[2][j], s, st)] \o <<>>)
          [] tag = "grp" -> GroupStates(M(n[3], s, st), n[2], i)
          [] tag = "bol" -> IF i = 0 THEN <<st>> ELSE <<>>
          [] tag = "eol" ->
               IF i = Len(s) \/ (i = Len(s) - 1 /\ s[Len(s)] = "\n") THEN <<st>> ELSE <<>>
          [] tag = "wb" -> IF IsWordAt(s, i) # IsWordAt(s, i + 1) THEN <<st>> ELSE <<>>
          [] tag = "nla" -> IF Len(M(n[2], s, st)) = 0 THEN <<st>> ELSE <<>>

MCat(ns, j, s, sts) ==
    IF j > Len(ns) \/ Len(sts) = 0 THEN sts
    ELSE MCat(ns, j + 1, s,
              ConcatDistinct([a \in 1..Len(sts) |-> M(ns[j], s, sts[a])] \o <<>>))

\* pattern.match(s, i): the match starting exactly at index i
FirstState(r, i) ==
    IF Len(r) = 0 THEN NoMatch ELSE [ok |-> TRUE, b |-> i, e |-> r[1].e, c |-> r[1].c]

MatchAt(re, s, i) == FirstState(M(re, s, [e |-> i, c |-> NoCaps]), i)

\* the match of the pattern at every start index 0..len(s)
MatchTable(re, s) == [p \in 1..(Len(s) + 1) |-> MatchAt(re, s, p - 1)] \o <<>>

\* the leftmost match of the table starting at or after from
FirstFrom(tab, from) ==
    LET hits == {p \in from..(Len(tab) - 1) : tab[p + 1].ok}
    IN  IF hits = {} THEN NoMatch
        ELSE tab[(CHOOSE p \in hits : \A q \in hits : p <= q) + 1]

\* pattern.search(s)
Search(re, s) == FirstFrom(MatchTable(re, s), 0)

\* pattern.finditer(s): the non-overlapping matches from left to right
RECURSIVE FindIterFrom(_, _)
RECURSIVE FindIterNext(_, _)
FindIterFrom(tab, from) == FindIterNext(tab, FirstFrom(tab, from))

FindIterNext(tab, m) ==
    IF ~m.ok THEN <<>>
    ELSE <<m>> \o FindIterFrom(tab, IF m.e > m.b THEN m.e ELSE m.e + 1)

FindIter(re, s) == FindIterFrom(MatchTable(re, s), 0)

(***************************************************************************)
(* Python string operations.                                               *)
(***************************************************************************)
\* s[a:b]
Slice(s, a, b) == SubSeq(s, a + 1, b)

\* m.group(g)
GroupText(s, m, g) == Slice(s, m.c[g][1], m.c[g][2])

IsBlank(s) == \A i \in 1..Len(s) : s[i] \in SpaceCh

\* str.strip()
Strip(s) ==
    IF IsBlank(s) THEN <<>>
    ELSE LET first == CHOOSE i \in 1..Len(s) :
                        /\ s[i] \notin SpaceCh
                        /\ \A j \in 1..(i - 1) : s[j] \in SpaceCh
             last == CHOOSE i \in 1..Len(s) :
                        /\ s[i] \notin SpaceCh
                        /\ \A j \in (i + 1)..Len(s) : s[j] \in SpaceCh
         IN  SubSeq(s, first, last)


(***************************************************************************)
(* paragraph_splitter.py: the patterns.                                    *)
(***************************************************************************)
Sp == Ch(SpaceCh)

\* \d
Dg == Ch(DigitAny)

\* [0-9]
D09 == Ch(Digit)

AZ == Ch(AsciiUpper)

AZ09 == Ch(AsciiUpper \cup Digit)

SpDash == Ch(SpaceCh \cup {"-"})

DashSlash == Ch({"-", "/"})

\* (\s?[A-Z]\d?)?
KindCode == Opt(Cat(<<Opt(Sp), AZ, Opt(Dg)>>))

\* U\.?S\.?
USPrefix == Cat(<<Lit(<<"U">>), Opt(Lit(<<".">>)), Lit(<<"S">>), Opt(Lit(<<".">>))>>)

\* JP[\s-]?[A-B]{0,1}\s?
JPPrefix == Cat(<<Lit(<<"J", "P">>), Opt(SpDash), Rep(Ch({"A", "B"}), 0, 1), Opt(Sp)>>)

PATENT_ID_REGEX ==
    Alt(<<
      \* WO\s?\d{2,4}\s?\/?\s?\d+\s?\d*\s?[A-Z0-9]{1,2}?
      Cat(<<Lit(<<"W", "O">>), Opt(Sp), Rep(Dg, 2, 4), Opt(Sp), Opt(Lit(<<"/">>)),
            Opt(Sp), Plus(Dg), Opt(Sp), Star(Dg), Opt(Sp), RepLazy(AZ09, 1, 2)>>),
      \* PCT\/[A-Z]{2}\d{2,4}\/\d{3,7}
      Cat(<<Lit(<<"P", "C", "T", "/">>), Rep(AZ, 2, 2), Rep(Dg, 2, 4), Lit(<<"/">>),
            Rep(Dg, 3, 7)>>),
      \* EP\s?\d+[\s-]?\d+[\s-]?\d+[A-Z0-9]{1,2}?
      Cat(<<Lit(<<"E", "P">>), Opt(Sp), Plus(Dg), Opt(SpDash), Plus(Dg), Opt(SpDash),
            Plus(Dg), RepLazy(AZ09, 1, 2)>>),
      \* U\.?S\.?\s?\d{2}\/\d+(\s?[A-Z])?
      Cat(<<USPrefix, Opt(Sp), Rep(Dg, 2, 2), Lit(<<"/">>), Plus(Dg),
            Opt(Cat(<<Opt(Sp), AZ>>))>>),
      \* U\.?S\.?\s?[0-9,]{7,}(\s?[A-Z]\d?)?
      Cat(<<USPrefix, Opt(Sp), Rep(Ch(Digit \cup {","}), 7, Unbounded), KindCode>>),
      \* U\.?S\.?[\s-]?[A-Z]{0,2}\s?\d{4}\s?[-\/]?\s?[\d\s]+(\s?[A-Z]\d?)?
      Cat(<<USPrefix, Opt(SpDash), Rep(AZ, 0, 2), Opt(Sp), Rep(Dg, 4, 4), Opt(Sp),
            Opt(DashSlash), Opt(Sp), Plus(Ch(DigitAny \cup SpaceCh)), KindCode>>),
      \* JP[\s-]?[A-B]{0,1}\s?\d{4}[-\/]?\d+(\s?[A-Z]\d?)?
      Cat(<<JPPrefix, Rep(Dg, 4, 4), Opt(DashSlash), Plus(Dg), KindCode>>),
      \* JP[\s-]?[A-B]{0,1}\s?[HS]\d{1,2}[-\/]?\d+(\s?[A-Z]\d?)?
      Cat(<<JPPrefix, Ch({"H", "S"}), Rep(Dg, 1, 2), Opt(DashSlash), Plus(Dg), KindCode>>),
      \* CN\d{6,}(\s?[A-Z]\d?)?
      Cat(<<Lit(<<"C", "N">>), Rep(Dg, 6, Unbounded), KindCode>>),
      \* \bDE\s?\d{2}\s?\d{4}\s?\d{3}\s?\d{3}(?:\.\d)?(?:\s?[A-Z]\d?)?\b
      Cat(<<WordB, Lit(<<"D", "E">>), Opt(Sp), Rep(Dg, 2, 2), Opt(Sp), Rep(Dg, 4, 4),
            Opt(Sp), Rep(Dg, 3, 3), Opt(Sp), Rep(Dg, 3, 3),
            Opt(Cat(<<Lit(<<".">>), Dg>>)), KindCode, WordB>>),
      \* \bDE\s?[\d\s]{7,}(?:\s?[A-Z]\d?)?\b
      Cat(<<WordB, Lit(<<"D", "E">>), Opt(Sp), Rep(Ch(DigitAny \cup SpaceCh), 7, Unbounded),
            KindCode, WordB>>),
      \* GB[\s-]?[A-Z]{0,1}\s?[0-9\-]{6,}(\s?[A-Z]\d?)?x
      Cat(<<Lit(<<"G", "B">>), Opt(SpDash), Rep(AZ, 0, 1), Opt(Sp),
            Rep(Ch(Digit \cup {"-"}), 6, Unbounded), KindCode, Lit(<<"x">>)>>)
    >>)

\* ([,;.\s])(ID), re.IGNORECASE
PATENT_SPLIT_PATTERN ==
    IgnoreCase(Cat(<<Grp(1, Ch({",", ";", "."} \cup SpaceCh)), Grp(2, PATENT_ID_REGEX)>>))

\* ^\s*(ID), re.IGNORECASE
PATENT_ONLY_START_PATTERN ==
    IgnoreCase(Cat(<<Bol, Star(Sp), Grp(1, PATENT_ID_REGEX)>>))

PATENT_FINDER_PATTERN == IgnoreCase(PATENT_ID_REGEX)

\* ([\.\:\;])(\s+)((?:for|as\san)\sexample), re.IGNORECASE
SPLIT_EXAMPLE_REGEX ==
    IgnoreCase(Cat(<<Grp(1, Ch({".", ":", ";"})), Grp(2, Plus(Sp)),
                     Grp(3, Cat(<<Alt(<<Lit(<<"f", "o", "r">>),
                                        Cat(<<Lit(<<"a", "s">>), Sp, Lit(<<"a", "n">>)>>)>>),
                                  Sp, Lit(<<"e", "x", "a", "m", "p", "l", "e">>)>>))>>))

Punct == Ch({".", ",", ":", ";"})

Newline == Ch({"\n"})

\* \.\n{2,}
DotDoubleNewlinePattern == Cat(<<Lit(<<".">>), Rep(Newline, 2, Unbounded)>>)

\* ([.,:;])\n(-)
PunctuationDashPattern == Cat(<<Grp(1, Punct), Newline, Grp(2, Lit(<<"-">>))>>)

\* (\s--\s?>\s*)
ArrowPattern == Cat(<<Sp, Lit(<<"-", "-">>), Opt(Sp), Lit(<<">">>), Star(Sp)>>)

\* ' z\. B\. '
ZBPattern == Lit(<<" ", "z", ".", " ", "B", ".", " ">>)

\* (\sor)(\n-\s)
OrNewlineDashPattern ==
    Cat(<<Grp(1, Cat(<<Sp, Lit(<<"o", "r">>)>>)), Grp(2, Cat(<<Lit(<<"\n", "-">>), Sp>>))>>)

\* ([.,:;])\n(\(?[0-9]{1,2}\)?\.?\s)
ListItemPattern ==
    Cat(<<Grp(1, Punct), Newline,
          Grp(2, Cat(<<Opt(Lit(<<"(">>)), Rep(D09, 1, 2), Opt(Lit(<<")">>)),
                       Opt(Lit(<<".">>)), Sp>>))>>)

\* ([.,:;])\n+([a-zA-Z]\))
LetterBracketPattern ==
    Cat(<<Grp(1, Punct), Plus(Newline),
          Grp(2, Cat(<<Ch(FoldCase(AsciiUpper)), Lit(<<")">>)>>))>>)

\* ([.,:;])\n*((FIG|FIGURE|Fig)\.?\s[0-9]{1,3})
FigurePattern ==
    Cat(<<Grp(1, Punct), Star(Newline),
          Grp(2, Cat(<<Alt(<<Lit(<<"F", "I", "G">>), Lit(<<"F", "I", "G", "U", "R", "E">>),
                             Lit(<<"F", "i", "g">>)>>),
                       Opt(Lit(<<".">>)), Sp, Rep(D09, 1, 3)>>))>>)

(***************************************************************************)
(* paragraph_splitter.py: the split rules.                                 *)
(***************************************************************************)
PATENT == <<"P", "A", "T", "E", "N", "T">>

NonEmpty(p) == Len(p) > 0

NonBlank(p) == ~IsBlank(p)

\* text.replace("\r\n", "\n").replace("\r", "\n")
RECURSIVE NormalizeNewlines(_)
NormalizeNewlines(s) ==
    IF Len(s) = 0 THEN <<>>
    ELSE IF Len(s) >= 2 /\ s[1] = "\r" /\ s[2] = "\n"
         THEN <<"\n">> \o NormalizeNewlines(SubSeq(s, 3, Len(s)))
         ELSE <<IF s[1] = "\r" THEN "\n" ELSE s[1]>> \o NormalizeNewlines(Tail(s))

\* PATENT_SPLIT_PATTERN.sub(r'\g<1>PATENT', s): every match replaced by its
\* separator followed by PATENT
RECURSIVE SubFrom(_, _, _, _)
SubFrom(s, ms, j, last) ==
    IF j > Len(ms) THEN Slice(s, last, Len(s))
    ELSE Slice(s, last, ms[j].b) \o GroupText(s, ms[j], 1) \o PATENT
         \o SubFrom(s, ms, j + 1, ms[j].e)

\* PATENT_ONLY_START_PATTERN.sub('PATENT', s), m the pattern's match at the start of s
SubStart(s, m) == IF m.ok THEN PATENT \o Slice(s, m.e, Len(s)) ELSE s

SubstituteStart(modified_text) ==
    SubStart(modified_text, MatchAt(PATENT_ONLY_START_PATTERN, modified_text, 0))

substitute_patent_numbers(text) ==
    Strip(SubstituteStart(SubFrom(text, FindIter(PATENT_SPLIT_PATTERN, text), 1, 0)))

\* the loop shared by the finditer rules: cuts[j] = <<split_index, next last_index>>;
\* parts.append(text[last_index:split_index].strip()) for every match
LoopParts(s, cuts) ==
    [j \in 1..Len(cuts) |->
        Strip(Slice(s, IF j = 1 THEN 0 ELSE cuts[j - 1][2], cuts[j][1]))]

\* remainder = text[last_index:].strip(); if remainder: parts.append(remainder)
Remainder(s, cuts) ==
    LET remainder == Strip(Slice(s, IF Len(cuts) = 0 THEN 0 ELSE cuts[Len(cuts)][2], Len(s)))
    IN  IF Len(remainder) > 0 THEN <<remainder>> ELSE <<>>

\* return [p for p in parts if p] if len(parts) > 1 else [text]
PartsOrText(parts, text) ==
    IF Len(parts) > 1 THEN SelectSeq(parts, NonEmpty) ELSE <<text>>

\* the finditer loop over s with the given cuts, the remainder and the return
SplitAtCuts(s, cuts, text) == PartsOrText(LoopParts(s, cuts) \o Remainder(s, cuts), text)

\* split_index = m.start(), last_index = m.end()
WholeMatchCuts(ms) == [j \in 1..Len(ms) |-> <<ms[j].b, ms[j].e>>]

\* split_index = m.start(1) + 1, last_index = m.start(2)
AfterPunctuationCuts(ms) == [j \in 1..Len(ms) |-> <<ms[j].c[1][1] + 1, ms[j].c[2][1]>>]

\* here the loop appends part_before only if it is not empty
PatentParts(text, cuts) ==
    PartsOrText(SelectSeq(LoopParts(text, cuts), NonEmpty) \o Remainder(text, cuts), text)

split_paragraph_on_patent_number(text) ==
    PatentParts(text, WholeMatchCuts(FindIter(PATENT_FINDER_PATTERN, text)))

\* re.split(pattern, s) for a pattern without groups
Between(s, ms) ==
    [j \in 1..(Len(ms) + 1) |->
        Slice(s, IF j = 1 THEN 0 ELSE ms[j - 1].e,
                 IF j > Len(ms) THEN Len(s) ELSE ms[j].b)]

ReSplit(re, s) == Between(s, FindIter(re, s))

\* p.strip(); append '.' unless p ends with '.', '?' or '!'
AppendPeriod(q) ==
    IF Len(q) > 0 /\ q[Len(q)] \notin {".", "?", "!"} THEN q \o <<".">> ELSE q

EndWithPeriod(p) == AppendPeriod(Strip(p))

\* the loop over raw_parts: blank parts are skipped
EndAllWithPeriod(kept) == [j \in 1..Len(kept) |-> EndWithPeriod(kept[j])]

split_paragraph_on_dot_double_newline(text) ==
    EndAllWithPeriod(SelectSeq(ReSplit(DotDoubleNewlinePattern, NormalizeNewlines(text)),
                               NonBlank))

\* split_index = m.start(1) + 1, last_index = m.end(2)
SkipDashCuts(ms) == [j \in 1..Len(ms) |-> <<ms[j].c[1][1] + 1, ms[j].c[2][2]>>]

\* a variant that resumes after the dash (last_index = m.end(2)) and so loses it
split_paragraph_on_punctuation_dash_SkipDash(text) ==
    SplitAtCuts(NormalizeNewlines(text),
                SkipDashCuts(FindIter(PunctuationDashPattern, NormalizeNewlines(text))), text)

split_paragraph_on_punctuation_dash(text) ==
    SplitAtCuts(NormalizeNewlines(text),
                AfterPunctuationCuts(FindIter(PunctuationDashPattern, NormalizeNewlines(text))), text)

split_paragraph_on_arrow(text) ==
    SplitAtCuts(text, WholeMatchCuts(FindIter(ArrowPattern, text)), text)

\* split_index = m.start() + 1, last_index = split_index
BeforePhraseCuts(ms) == [j \in 1..Len(ms) |-> <<ms[j].b + 1, ms[j].b + 1>>]

split_paragraph_on_z_b(text) ==
    SplitAtCuts(text, BeforePhraseCuts(FindIter(ZBPattern, text)), text)

\* split_index = m.end(1), last_index = m.start(2)
AfterOrCuts(ms) == [j \in 1..Len(ms) |-> <<ms[j].c[1][2], ms[j].c[2][1]>>]

split_paragraph_on_or_newline_dash(text) ==
    SplitAtCuts(NormalizeNewlines(text),
                AfterOrCuts(FindIter(OrNewlineDashPattern, NormalizeNewlines(text))), text)

split_paragraph_on_punctuation_list_item(text) ==
    SplitAtCuts(NormalizeNewlines(text),
                AfterPunctuationCuts(FindIter(ListItemPattern, NormalizeNewlines(text))), text)

\* the loop of split_by_specific_example_phrase over the matches: part A is the text
\* so far plus the punctuation, part B starts with the space and the phrase
RECURSIVE ExampleLoop(_, _, _, _)
ExampleLoop(s, ms, j, current_start) ==
    IF j > Len(ms)
    THEN LET current_part == Strip(Slice(s, current_start, Len(s)))
         IN  IF Len(current_part) > 0 THEN <<current_part>> ELSE <<>>
    ELSE LET part_a == Strip(Slice(s, current_start, ms[j].b) \o GroupText(s, ms[j], 1))
         IN  (IF Len(part_a) > 0 THEN <<part_a>> ELSE <<>>)
             \o ExampleLoop(s, ms, j + 1, ms[j].c[2][1])

split_by_specific_example_phrase(text) ==
    ExampleLoop(text, FindIter(SPLIT_EXAMPLE_REGEX, text), 1, 0)

split_paragraph_on_punctuation_letter_bracket(text) ==
    SplitAtCuts(NormalizeNewlines(text),
                AfterPunctuationCuts(FindIter(LetterBracketPattern, NormalizeNewlines(text))), text)

split_paragraph_on_figure_enumeration(text) ==
    SplitAtCuts(NormalizeNewlines(text),
                AfterPunctuationCuts(FindIter(FigurePattern, NormalizeNewlines(text))), text)

\* a variant that tries the arrow rule before the period and double newline rule
FINAL_SPLIT_ORDER_ArrowEarly ==
    <<"split_paragraph_on_patent_number",
      "split_paragraph_on_arrow",
      "split_paragraph_on_dot_double_newline",
      "split_paragraph_on_punctuation_dash",
      "split_paragraph_on_figure_enumeration",
      "split_paragraph_on_punctuation_list_item",
      "split_paragraph_on_punctuation_letter_bracket",
      "split_paragraph_on_or_newline_dash",
      "split_paragraph_on_z_b",
      "split_by_specific_example_phrase">>

FINAL_SPLIT_ORDER ==
    <<"split_paragraph_on_patent_number",
      "split_paragraph_on_dot_double_newline",
      "split_paragraph_on_punctuation_dash",
      "split_paragraph_on_figure_enumeration",
      "split_paragraph_on_punctuation_list_item",
      "split_paragraph_on_punctuation_letter_bracket",
      "split_paragraph_on_or_newline_dash",
      "split_paragraph_on_z_b",
      "split_paragraph_on_arrow",
      "split_by_specific_example_phrase">>

\* len(FINAL_SPLIT_ORDER)
NRules == Len(FINAL_SPLIT_ORDER)

\* FINAL_SPLIT_ORDER[k - 1](part)
ApplyRule(k, part) ==
    LET rule == FINAL_SPLIT_ORDER[k]
    IN  CASE rule = "split_paragraph_on_patent_number" ->
               split_paragraph_on_patent_number(part)
          [] rule = "split_paragraph_on_dot_double_newline" ->
               split_paragraph_on_dot_double_newline(part)
          [] rule = "split_paragraph_on_punctuation_dash" ->
               split_paragraph_on_punctuation_dash(part)
          [] rule = "split_paragraph_on_figure_enumeration" ->
               split_paragraph_on_figure_enumeration(part)
          [] rule = "split_paragraph_on_punctuation_list_item" ->
               split_paragraph_on_punctuation_list_item(part)
          [] rule = "split_paragraph_on_punctuation_letter_bracket" ->
               split_paragraph_on_punctuation_letter_bracket(part)
          [] rule = "split_paragraph_on_or_newline_dash" ->
               split_paragraph_on_or_newline_dash(part)
          [] rule = "split_paragraph_on_z_b" ->
               split_paragraph_on_z_b(part)
          [] rule = "split_paragraph_on_arrow" ->
               split_paragraph_on_arrow(part)
          [] rule = "split_by_specific_example_phrase" ->
               split_by_specific_example_phrase(part)

(***************************************************************************)
(* date_extraction.py: DateExtractor.                                      *)
(***************************************************************************)
\* MONTHS, in the order of the dictionary's keys
MONTHS ==
    <<<<<<"j", "a", "n", "u", "a", "r", "y">>, 1>>,
      <<<<"f", "e", "b", "r", "u", "a", "r", "y">>, 2>>,
      <<<<"m", "a", "r", "c", "h">>, 3>>,
      <<<<"a", "p", "r", "i", "l">>, 4>>,
      <<<<"m", "a", "y">>, 5>>,
      <<<<"j", "u", "n", "e">>, 6>>,
      <<<<"j", "u", "l", "y">>, 7>>,
      <<<<"a", "u", "g", "u", "s", "t">>, 8>>,
      <<<<"s", "e", "p", "t", "e", "m", "b", "e", "r">>, 9>>,
      <<<<"o", "c", "t", "o", "b", "e", "r">>, 10>>,
      <<<<"n", "o", "v", "e", "m", "b", "e", "r">>, 11>>,
      <<<<"d", "e", "c", "e", "m", "b", "e", "r">>, 12>>,
      <<<<"j", "a", "n">>, 1>>,
      <<<<"f", "e", "b">>, 2>>,
      <<<<"m", "a", "r">>, 3>>,
      <<<<"a", "p", "r">>, 4>>,
      <<<<"j", "u", "n">>, 6>>,
      <<<<"j", "u", "l">>, 7>>,
      <<<<"a", "u", "g">>, 8>>,
      <<<<"s", "e", "p">>, 9>>,
      <<<<"s", "e", "p", "t">>, 9>>,
      <<<<"o", "c", "t">>, 10>>,
      <<<<"n", "o", "v">>, 11>>,
      <<<<"d", "e", "c">>, 12>>,
      <<<<"j", "a", "n", "v", "i", "e", "r">>, 1>>,
      <<<<"f", "e'", "v", "r", "i", "e", "r">>, 2>>,
      <<<<"m", "a", "r", "s">>, 3>>,
      <<<<"a", "v", "r", "i", "l">>, 4>>,
      <<<<"m", "a", "i">>, 5>>,
      <<<<"j", "u", "i", "n">>, 6>>,
      <<<<"j", "u", "i", "l", "l", "e", "t">>, 7>>,
      <<<<"a", "o", "u^", "t">>, 8>>,
      <<<<"s", "e", "p", "t", "e", "m", "b", "r", "e">>, 9>>,
      <<<<"o", "c", "t", "o", "b", "r", "e">>, 10>>,
      <<<<"n", "o", "v", "e", "m", "b", "r", "e">>, 11>>,
      <<<<"d", "e'", "c", "e", "m", "b", "r", "e">>, 12>>,
      <<<<"j", "a", "n", "v">>, 1>>,
      <<<<"f", "e'", "v", "r">>, 2>>,
      <<<<"a", "v", "r">>, 4>>,
      <<<<"j", "u", "i", "l">>, 7>>,
      <<<<"d", "e'", "c">>, 12>>,
      <<<<"j", "a", "n", "u", "a", "r">>, 1>>,
      <<<<"f", "e", "b", "r", "u", "a", "r">>, 2>>,
      <<<<"m", "a:", "r", "z">>, 3>>,
      <<<<"j", "u", "n", "i">>, 6>>,
      <<<<"j", "u", "l", "i">>, 7>>,
      <<<<"o", "k", "t", "o", "b", "e", "r">>, 10>>,
      <<<<"d", "e", "z", "e", "m", "b", "e", "r">>, 12>>,
      <<<<"m", "a:", "r">>, 3>>,
      <<<<"o", "k", "t">>, 10>>,
      <<<<"d", "e", "z">>, 12>>>>

\* datetime.now().year when the class is created
CURRENT_YEAR == 2026

MIN_YEAR == 1900

\* '|'.join(MONTHS.keys())
MONTH_NAMES == Alt([i \in 1..Len(MONTHS) |-> Lit(MONTHS[i][1])])

D4 == Rep(Dg, 4, 4)

D12 == Rep(Dg, 1, 2)

\* (?:st|nd|rd|th)?
Ordinal == Opt(Alt(<<Lit(<<"s", "t">>), Lit(<<"n", "d">>), Lit(<<"r", "d">>), Lit(<<"t", "h">>)>>))

Dot == Lit(<<".">>)

Comma == Lit(<<",">>)

Dash == Lit(<<"-">>)

DotDash == Ch({".", "-"})

\* \bto\b|\d+-\d+(?:\s+\w+\s+\d{4}), re.IGNORECASE
date_range ==
    IgnoreCase(Alt(<<Cat(<<WordB, Lit(<<"t", "o">>), WordB>>),
                     Cat(<<Plus(Dg), Dash, Plus(Dg), Plus(Sp), Plus(Ch(WordCh)), Plus(Sp), D4>>)>>))

\* \b\d{4}-\d{7,}\b
invalid_year_format == Cat(<<WordB, D4, Dash, Rep(Dg, 7, Unbounded), WordB>>)

\* \b(\d{1,2})\.?\s*(MONTHS)\.?\s*(\d{4})\b, re.IGNORECASE
p1 ==
    IgnoreCase(Cat(<<WordB, Grp(1, D12), Opt(Dot), Star(Sp), Grp(2, MONTH_NAMES), Opt(Dot),
                     Star(Sp), Grp(3, D4), WordB>>))

\* \b(MONTHS)\s+\d+\s+to\s+\d+,\s+(\d{4})\b, re.IGNORECASE
p2_range ==
    IgnoreCase(Cat(<<WordB, Grp(1, MONTH_NAMES), Plus(Sp), Plus(Dg), Plus(Sp),
                     Lit(<<"t", "o">>), Plus(Sp), Plus(Dg), Comma, Plus(Sp), Grp(2, D4),
                     WordB>>))

\* \b(MONTHS)\.?\s+(\d{1,2})(?:st|nd|rd|th)?\.?\s*,?\s*(\d{4}), re.IGNORECASE
p2 ==
    IgnoreCase(Cat(<<WordB, Grp(1, MONTH_NAMES), Opt(Dot), Plus(Sp), Grp(2, D12), Ordinal,
                     Opt(Dot), Star(Sp), Opt(Comma), Star(Sp), Grp(3, D4)>>))

\* \b(\d{1,2})(?:st|nd|rd|th)?\.?\s+(?:of\s+)?(MONTHS)\s*,?\s*(\d{4})\b, re.IGNORECASE
p3 ==
    IgnoreCase(Cat(<<WordB, Grp(1, D12), Ordinal, Opt(Dot), Plus(Sp),
                     Opt(Cat(<<Lit(<<"o", "f">>), Plus(Sp)>>)), Grp(2, MONTH_NAMES), Star(Sp),
                     Opt(Comma), Star(Sp), Grp(3, D4), WordB>>))

\* \b(\d{4})[,\s]+(MONTHS)\s+(\d{1,2})(?:st|nd|rd|th)?(?:[;\s(]|$), re.IGNORECASE
p4 ==
    IgnoreCase(Cat(<<WordB, Grp(1, D4), Plus(Ch({","} \cup SpaceCh)), Grp(2, MONTH_NAMES),
                     Plus(Sp), Grp(3, D12), Ordinal,
                     Alt(<<Ch({";", "("} \cup SpaceCh), Eol>>)>>))

\* \b(\d{4})\s+(MONTHS)\s+(\d{1,2})-(MONTHS), re.IGNORECASE
p4_range ==
    IgnoreCase(Cat(<<WordB, Grp(1, D4), Plus(Sp), Grp(2, MONTH_NAMES), Plus(Sp), Grp(3, D12),
                     Dash, Grp(4, MONTH_NAMES)>>))

\* \b(MONTHS)-(MONTHS)\s+(\d{4})\b, re.IGNORECASE
p5 ==
    IgnoreCase(Cat(<<WordB, Grp(1, MONTH_NAMES), Dash, Grp(2, MONTH_NAMES), Plus(Sp),
                     Grp(3, D4), WordB>>))

\* \b(\d{4})[.\s]+(\d{1,2})(?:\(|;|\.|$)
p6 ==
    Cat(<<WordB, Grp(1, D4), Plus(Ch({"."} \cup SpaceCh)), Grp(2, D12),
          Alt(<<Lit(<<"(">>), Lit(<<";">>), Dot, Eol>>)>>)

\* \b(\d{4})\s*[.,]?\s*(MONTHS)\b, re.IGNORECASE
p7 ==
    IgnoreCase(Cat(<<WordB, Grp(1, D4), Star(Sp), Opt(Ch({".", ","})), Star(Sp),
                     Grp(2, MONTH_NAMES), WordB>>))

\* \b(MONTHS)\s*[.,]?\s*(\d{4})\b, re.IGNORECASE
p8 ==
    IgnoreCase(Cat(<<WordB, Grp(1, MONTH_NAMES), Star(Sp), Opt(Ch({".", ","})), Star(Sp),
                     Grp(2, D4), WordB>>))

\* \b(\d{4})[.\-](\d{1,2})[.\-](\d{1,2})\b
p9_ymd == Cat(<<WordB, Grp(1, D4), DotDash, Grp(2, D12), DotDash, Grp(3, D12), WordB>>)

\* \b(\d{1,2})[.\-](\d{1,2})[.\-](\d{4})\b
p9_dmy == Cat(<<WordB, Grp(1, D12), DotDash, Grp(2, D12), DotDash, Grp(3, D4), WordB>>)

\* \b(\d{4})-(\d{1,2})(?:\D|$)
p10 == Cat(<<WordB, Grp(1, D4), Dash, Grp(2, D12), Alt(<<NotCh(DigitAny), Eol>>)>>)

\* \b(\d{4})\b
year_any == Cat(<<WordB, Grp(1, D4), WordB>>)

\* \b(\d{4})-(\d{4})\b
year_range == Cat(<<WordB, Grp(1, D4), Dash, Grp(2, D4), WordB>>)

\* \b(\d{4})-\d{5,}\b
year_long == Cat(<<WordB, Grp(1, D4), Dash, Rep(Dg, 5, Unbounded), WordB>>)

\* \((\d{4})\)
year_paren == Cat(<<Lit(<<"(">>), Grp(1, D4), Lit(<<")">>)>>)

\* \[(\d{4})\]
year_bracket == Cat(<<Lit(<<"[">>), Grp(1, D4), Lit(<<"]">>)>>)

\* the value of a decimal digit
DigitVal(ch) ==
    IF ch = "ar3" THEN 3 ELSE (CHOOSE i \in 1..Len(DigitSeq) : DigitSeq[i] = ch) - 1

\* int(s) for a string of digits
RECURSIVE ToInt(_)
ToInt(w) ==
    IF Len(w) = 0 THEN 0 ELSE 10 * ToInt(SubSeq(w, 1, Len(w) - 1)) + DigitVal(w[Len(w)])

\* str(n) for n >= 0
RECURSIVE Decimal(_)
Decimal(n) ==
    IF n < 10 THEN <<DigitSeq[n + 1]>> ELSE Decimal(n \div 10) \o <<DigitSeq[(n % 10) + 1]>>

Zeros(n) == [i \in 1..n |-> "0"]

\* a variant that does not pad: f'{n}'
FormatField_Unpadded(n, width) == Decimal(n)

\* f'{n:0<width>d}': decimal, padded with zeros on the left to at least width
FormatField(n, width) ==
    IF Len(Decimal(n)) >= width THEN Decimal(n)
    ELSE Zeros(width - Len(Decimal(n))) \o Decimal(n)

\* str.lower()
Lowered(w) == [i \in 1..Len(w) |-> LowerOf(w[i])]

\* None, for day, month, year and a failed MONTHS.get
NoneInt == 0 - 1

\* MONTHS.get(month_str.lower())
MonthEntry(name) == {i \in 1..Len(MONTHS) : MONTHS[i][1] = name}

MonthGet(month_str) ==
    IF MonthEntry(Lowered(month_str)) = {} THEN NoneInt
    ELSE MONTHS[CHOOSE i \in MonthEntry(Lowered(month_str)) : TRUE][2]

\* a variant without the lower limit
is_valid_year_NoMinimum(y) == y <= CURRENT_YEAR

is_valid_year(y) == MIN_YEAR <= y /\ y <= CURRENT_YEAR

is_valid_day(d) == 1 <= d /\ d <= 31

\* a variant without the upper limit
is_valid_month_NoMaximum(m) == 1 <= m

is_valid_month(m) == 1 <= m /\ m <= 12

\* the truth value of an int or None
Truthy(n) == n # NoneInt /\ n # 0

NoDate == [day |-> NoneInt, month |-> NoneInt, year |-> NoneInt]

\* day is None and month is None and year is None
AllNone(dt) == dt.day = NoneInt /\ dt.month = NoneInt /\ dt.year = NoneInt

\* a variant that looks at the month alone
MonthYearNone_MonthOnly(dt) == dt.month = NoneInt

\* month is None and year is None
MonthYearNone(dt) == dt.month = NoneInt /\ dt.year = NoneInt

\* the nested acceptance of a day, a named month and a year: the year if it is valid,
\* then the month if it is known and valid, then the day if it is valid
AcceptDayMonthYear(dt, d, m, y) ==
    IF ~is_valid_year(y) THEN dt
    ELSE IF ~(Truthy(m) /\ is_valid_month(m)) THEN [dt EXCEPT !.year = y]
    ELSE IF ~is_valid_day(d) THEN [dt EXCEPT !.year = y, !.month = m]
    ELSE [day |-> d, month |-> m, year |-> y]

\* the acceptance of a named month and a year
AcceptMonthYear(dt, m, y) ==
    IF ~is_valid_year(y) THEN dt
    ELSE IF ~(Truthy(m) /\ is_valid_month(m)) THEN [dt EXCEPT !.year = y]
    ELSE [dt EXCEPT !.year = y, !.month = m]

\* the acceptance of a year alone
AcceptYear(dt, y) == IF is_valid_year(y) THEN [dt EXCEPT !.year = y] ELSE dt

\* the acceptance of a numeric month and a year, both or none
AcceptNumericMonthYear(dt, m, y) ==
    IF is_valid_year(y) /\ is_valid_month(m) THEN [dt EXCEPT !.year = y, !.month = m] ELSE dt

IntGroup(s, m, g) == ToInt(GroupText(s, m, g))

MonthGroup(s, m, g) == MonthGet(GroupText(s, m, g))

\* Priority 1: day, month name, year
FromP1(s, m, dt) ==
    IF m.ok THEN AcceptDayMonthYear(dt, IntGroup(s, m, 1), MonthGroup(s, m, 2), IntGroup(s, m, 3))
    ELSE dt

Priority1(s, dt) == FromP1(s, Search(p1, s), dt)

\* Priority 2: month name, day, year; for a range of days the year alone
FromP2Range(s, m, dt) == IF m.ok THEN AcceptYear(dt, IntGroup(s, m, 2)) ELSE dt

FromP2(s, m, dt) ==
    IF m.ok THEN AcceptDayMonthYear(dt, IntGroup(s, m, 2), MonthGroup(s, m, 1), IntGroup(s, m, 3))
    ELSE dt

Priority2(s, dt, has_range) ==
    IF ~AllNone(dt) THEN dt
    ELSE IF has_range /\ Search(p2_range, s).ok THEN FromP2Range(s, Search(p2_range, s), dt)
    ELSE FromP2(s, Search(p2, s), dt)

\* Priority 3: day, month name, year
Priority3(s, dt) == IF ~AllNone(dt) THEN dt ELSE FromP1(s, Search(p3, s), dt)

\* Priority 4 and 4b: year, month name, day
FromP4(s, m, dt) ==
    IF m.ok THEN AcceptDayMonthYear(dt, IntGroup(s, m, 3), MonthGroup(s, m, 2), IntGroup(s, m, 1))
    ELSE dt

Priority4Range(s, dt) == IF ~AllNone(dt) THEN dt ELSE FromP4(s, Search(p4_range, s), dt)

Priority4(s, dt) == IF ~AllNone(dt) THEN dt ELSE FromP4(s, Search(p4, s), dt)

\* Priority 5: a range of months, the year alone
FromP5(s, m, dt) == IF m.ok THEN AcceptYear(dt, IntGroup(s, m, 3)) ELSE dt

Priority5(s, dt) == IF ~MonthYearNone(dt) THEN dt ELSE FromP5(s, Search(p5, s), dt)

\* Priority 6: year, numeric month
FromP6(s, m, dt) ==
    IF m.ok THEN AcceptNumericMonthYear(dt, IntGroup(s, m, 2), IntGroup(s, m, 1)) ELSE dt

Priority6(s, dt) == IF ~MonthYearNone(dt) THEN dt ELSE FromP6(s, Search(p6, s), dt)

\* Priority 7: year, month name
FromP7(s, m, dt) ==
    IF m.ok THEN AcceptMonthYear(dt, MonthGroup(s, m, 2), IntGroup(s, m, 1)) ELSE dt

Priority7(s, dt) == IF ~MonthYearNone(dt) THEN dt ELSE FromP7(s, Search(p7, s), dt)

\* Priority 8: month name, year
FromP8(s, m, dt) ==
    IF m.ok THEN AcceptMonthYear(dt, MonthGroup(s, m, 1), IntGroup(s, m, 2)) ELSE dt

Priority8(s, dt) == IF ~MonthYearNone(dt) THEN dt ELSE FromP8(s, Search(p8, s), dt)

\* Priority 9, yyyy.mm.dd: all three or none
AcceptYmd(dt, y, m, d) ==
    IF is_valid_year(y) /\ is_valid_month(m) /\ is_valid_day(d)
    THEN [day |-> d, month |-> m, year |-> y] ELSE dt

FromP9Ymd(s, m, dt) ==
    IF m.ok THEN AcceptYmd(dt, IntGroup(s, m, 1), IntGroup(s, m, 2), IntGroup(s, m, 3)) ELSE dt

\* Priority 9, dd.mm.yyyy: with a valid year, a first number over 31 or a second over
\* 12 rejects the whole date; otherwise day-month, then month-day, then a month alone
AcceptDmy(dt, a, b, y) ==
    IF ~is_valid_year(y) THEN [date |-> dt, reject |-> FALSE]
    ELSE IF a > 31 \/ b > 12 THEN [date |-> [dt EXCEPT !.year = y], reject |-> TRUE]
    ELSE [date |->
            IF is_valid_month(b) /\ is_valid_day(a) THEN [day |-> a, month |-> b, year |-> y]
            ELSE IF is_valid_month(a) /\ is_valid_day(b)
                 THEN [day |-> b, month |-> a, year |-> y]
            ELSE IF is_valid_month(b) THEN [dt EXCEPT !.year = y, !.month = b]
            ELSE IF is_valid_month(a) THEN [dt EXCEPT !.year = y, !.month = a]
            ELSE [dt EXCEPT !.year = y],
          reject |-> FALSE]

FromP9Dmy(s, m, dt) ==
    IF dt.year # NoneInt \/ ~m.ok THEN [date |-> dt, reject |-> FALSE]
    ELSE AcceptDmy(dt, IntGroup(s, m, 1), IntGroup(s, m, 2), IntGroup(s, m, 3))

Priority9(s, dt) ==
    IF ~AllNone(dt) THEN [date |-> dt, reject |-> FALSE]
    ELSE FromP9Dmy(s, Search(p9_dmy, s), FromP9Ymd(s, Search(p9_ymd, s), dt))

\* Priority 10: yyyy-m or yyyy-mm
FromP10(s, m, dt) ==
    IF m.ok /\ Len(GroupText(s, m, 2)) <= 2
    THEN AcceptNumericMonthYear(dt, IntGroup(s, m, 2), IntGroup(s, m, 1)) ELSE dt

Priority10(s, dt) == IF ~MonthYearNone(dt) THEN dt ELSE FromP10(s, Search(p10, s), dt)

\* Priority 11: the latest of the valid years
ValidYears(s, ms) == {IntGroup(s, ms[j], 1) : j \in 1..Len(ms)} \cap MIN_YEAR..CURRENT_YEAR

\* a variant that takes the earliest
MaxOf_Earliest(S) == CHOOSE x \in S : \A y \in S : x <= y

MaxOf(S) == CHOOSE x \in S : \A y \in S : y <= x

LatestYear(dt, years) == IF years = {} THEN dt ELSE [dt EXCEPT !.year = MaxOf(years)]

\* a variant without the scan for the latest year
Priority11_Skipped(s, dt) == dt

Priority11(s, dt) ==
    IF dt.year # NoneInt THEN dt ELSE LatestYear(dt, ValidYears(s, FindIter(year_any, s)))

\* Priority 12: a range of two valid years, the first
FromYearRange(s, m, dt) ==
    IF m.ok /\ is_valid_year(IntGroup(s, m, 1)) /\ is_valid_year(IntGroup(s, m, 2))
    THEN [dt EXCEPT !.year = IntGroup(s, m, 1)] ELSE dt

Priority12(s, dt) ==
    IF dt.year # NoneInt THEN dt ELSE FromYearRange(s, Search(year_range, s), dt)

\* Priority 13 and 15: the year of the first match, if valid
FromYear(s, m, dt) == IF m.ok THEN AcceptYear(dt, IntGroup(s, m, 1)) ELSE dt

Priority13(s, dt) == IF dt.year # NoneInt THEN dt ELSE FromYear(s, Search(year_long, s), dt)

\* Priority 14: the first valid year in parentheses
FirstValid(s, ms) == {j \in 1..Len(ms) : is_valid_year(IntGroup(s, ms[j], 1))}

FromYearParen(s, ms, dt) ==
    IF FirstValid(s, ms) = {} THEN dt
    ELSE [dt EXCEPT !.year =
            IntGroup(s, ms[CHOOSE j \in FirstValid(s, ms) : \A i \in FirstValid(s, ms) : j <= i], 1)]

Priority14(s, dt) ==
    IF dt.year # NoneInt THEN dt ELSE FromYearParen(s, FindIter(year_paren, s), dt)

Priority15(s, dt) ==
    IF dt.year # NoneInt THEN dt ELSE FromYear(s, Search(year_bracket, s), dt)

\* the formatting of the result
FormatDate(dt) ==
    (IF Truthy(dt.day) THEN FormatField(dt.day, 2) ELSE <<"0", "0">>)
    \o (IF Truthy(dt.month) THEN FormatField(dt.month, 2) ELSE <<"0", "0">>)
    \o FormatField(dt.year, 4)

(***************************************************************************)
(* The texts handed to split_and_clean_paragraph: None, and every          *)
(* concatenation of at most MaxFrags fragments.                            *)
(***************************************************************************)
MaxFrags == 2

Fragments ==
    { <<"a">>,
      <<" ">>,
      <<"b", ".">>,
      <<"a", ".", "\n", "\n">>,
      <<"a", " ", "-", "-", ">", " ">>,
      <<"a", ".", " ", "F", "o", "r", " ", "e", "x", "a", "m", "p", "l", "e", " ">>,
      <<"W", "O", "1", "1", "1", "1">>,
      <<"a", " ", "W", "O", "1", "1", "1", "1">>,
      <<",", " ", "b">>,
      <<"D", "E", "1", "1", "1", "1", "1", "1", "1", " ">>,
      <<"a", "n", " ", "e", "m", "b", "o", "d", "i", "m", "e", "n", "t">>,
      <<"a", ",", "\n", "-">> }

RECURSIVE Texts(_)
Texts(n) ==
    IF n = 0 THEN {<<>>}
    ELSE LET shorter == Texts(n - 1)
         IN  shorter \cup {t \o f : t \in shorter, f \in Fragments}

None == <<"None">>

Inputs == Texts(MaxFrags) \cup {None}

(***************************************************************************)
(* The paragraphs handed to DateExtractor.extract: None, and every         *)
(* concatenation of at most MaxDateFrags fragments.                        *)
(***************************************************************************)
MaxDateFrags == 2

DateFragments ==
    { <<"N", "/", "A">>,
      <<" ">>,
      <<"2", "4", " ", "O", "k", "t", ".", " ">>,
      <<"2", "0", "1", "3">>,
      <<"1", "8", "9", "9">>,
      <<"M", "a", "r", " ">>,
      <<"1", "3", "-", "1", "-">>,
      <<"1", "-", "1", "3", "-">>,
      <<"3", "2", ".", "1", ".">>,
      <<"ar3", ".", "1", ".">>,
      <<"2", "0", "1", "3", "-">>,
      <<"2", "0", "1", "0", "-", "0", "0", "2", "4", "0", "7", "7">>,
      <<"S", "e", "p", "t", "e", "m", "b", "e", "r", " ", "3", "0", ",", " ">>,
      <<"1", "5", "t", "h", " ", "o", "f", " ", "M", "a", "r", "c", "h", " ">>,
      <<"2", "0", "1", "2", " ", "M", "a", "r", " ", "3", "1", "-", "A", "p", "r">>,
      <<"2", "0", "1", "3", " ", "D", "e", "c", " ", "2", "1">>,
      <<"M", "a", "r", "-", "A", "p", "r", " ">>,
      <<"2", "0", "1", "3", ".", "0", "1", ".">>,
      <<"(", "2", "0", "1", "3", ")">>,
      <<"[", "2", "0", "1", "3", "]">>,
      <<"D", "e", "c", "e", "m", "b", "e", "r", " ", "1", "7", " ", "t", "o", " ", "1", "8", ",", " ">>,
      <<"2", "0", "0", "7", ",", " ">>,
      <<"2", "0", "0", "7", "-">>,
      <<"2", "0", "0", "5", "-", "3", "4", "3", "6", "9", "9">>,
      <<"1", "2">> }

RECURSIVE Paragraphs(_)
Paragraphs(n) ==
    IF n = 0 THEN {<<>>}
    ELSE {t \o f : t \in Paragraphs(n - 1), f \in DateFragments} \cup {<<>>}

DateInputs == Paragraphs(MaxDateFrags) \cup {None}

(***************************************************************************)
(* split_and_clean_paragraph as a state machine.  The recursion of         *)
(* cascading_split is a stack of frames: part and k are the arguments      *)
(* (split_methods = FINAL_SPLIT_ORDER[k - 1:]), mode is the position in    *)
(* the body, and ret records the call that has just returned.              *)
(***************************************************************************)
VARIABLES text, pc, stack, ret, final_parts, final_parts_cleaned, result,
          paragraph, dpc, day, month, year, has_date_range, returned,
          reference, entry, title, url, corrected, cpc, passes,
          noisy, neutral, npc,
          text_for_accession, simplified_bio_text, simplified_text, bpc,
          npl_citations, accession_citations, standard_citations, npl_counter,
          npl_unique_keys, last_call, ncalls, all_citations, insertions,
          payload, attempt, qpc, posts, sleeps, response, outcomes, api_ret, api_exc,
          npl_data, ref_index, all_references_to_add, add_index, ppc, calls

splitVars == <<text, pc, stack, ret, final_parts, final_parts_cleaned, result>>

dateVars == <<paragraph, dpc, day, month, year, has_date_range, returned>>

corrVars == <<reference, entry, title, url, corrected, cpc, passes>>

noiseVars == <<noisy, neutral, npc>>

bioVars == <<text_for_accession, simplified_bio_text, simplified_text, bpc>>

catVars == <<npl_citations, accession_citations, standard_citations, npl_counter,
             npl_unique_keys, last_call, ncalls, all_citations, insertions>>

apiVars == <<payload, attempt, qpc, posts, sleeps, response, outcomes, api_ret, api_exc>>

pipeVars == <<npl_data, ref_index, all_references_to_add, add_index, ppc, calls>>

llmVars == <<noiseVars, bioVars, catVars, apiVars, pipeVars>>

vars == <<splitVars, dateVars, corrVars, llmVars>>

NoRet == [part |-> <<>>, k |-> 0, val |-> <<>>]

Frame(part, k) ==
    [part |-> part, k |-> k, mode |-> "call", sub_parts |-> <<>>, idx |-> 0,
     final_parts |-> <<>>, val |-> <<>>]

Top == stack[Len(stack)]

SetTop(f) == [stack EXCEPT ![Len(stack)] = f]

\* a variant without the guard
IsNone_Unguarded(t) == FALSE

\* if text is None
IsNone(t) == t = None

\* a variant that recurses on the rule's single part instead of the original part
FailedSplitArgument_RuleResult(part, sub_parts) ==
    IF Len(sub_parts) = 1 THEN sub_parts[1] ELSE part

\* the first argument of the recursive call when the split failed
FailedSplitArgument(part, sub_parts) == part

\* no record is being corrected
\* neutralize_quantitative_noise is not running
NoiseIdle ==
    /\ noisy = <<>>
    /\ neutral = <<>>
    /\ npc = "idle"

\* the accession path is not running
BioIdle ==
    /\ text_for_accession = <<>>
    /\ simplified_bio_text = <<>>
    /\ simplified_text = <<>>
    /\ bpc = "idle"

NoCall == [op |-> "", arg |-> <<>>, ret |-> <<>>, raised |-> ""]

\* CitationCatalog.__init__, and no method called yet
NewCatalog ==
    /\ npl_citations = <<>>
    /\ accession_citations = <<>>
    /\ standard_citations = <<>>
    /\ npl_counter = 1
    /\ npl_unique_keys = {}
    /\ last_call = NoCall
    /\ ncalls = 0
    /\ all_citations = <<>>
    /\ insertions = <<>>

NoResponse == [status_code |-> 0, body |-> <<>>]

\* call_lm_studio_api_with_retry has not been called
ApiIdle ==
    /\ payload = <<>>
    /\ attempt = 0 - 1
    /\ qpc = "idle"
    /\ posts = 0
    /\ sleeps = <<>>
    /\ response = NoResponse
    /\ outcomes = <<>>
    /\ api_ret = <<>>
    /\ api_exc = ""

NoData == [ok |-> FALSE, references |-> <<>>]

\* no text part is being processed
PipeIdle ==
    /\ npl_data = NoData
    /\ ref_index = 0
    /\ all_references_to_add = <<>>
    /\ add_index = 0
    /\ ppc = "idle"
    /\ calls = <<>>

LlmIdle == NoiseIdle /\ BioIdle /\ NewCatalog /\ ApiIdle /\ PipeIdle

NoReference ==
    [title |-> <<>>, publisher |-> <<>>, url |-> <<>>, author |-> <<>>,
     publication_date |-> <<>>]

CorrIdle ==
    /\ reference = NoReference
    /\ entry = NoReference
    /\ title = <<>>
    /\ url = <<>>
    /\ corrected = FALSE
    /\ cpc = "idle"
    /\ passes = <<>>

\* no extraction is in progress
DateIdle ==
    /\ paragraph = <<>>
    /\ dpc = "idle"
    /\ day = NoneInt
    /\ month = NoneInt
    /\ year = NoneInt
    /\ has_date_range = FALSE
    /\ returned = <<>>

Init ==
    /\ text \in Inputs
    /\ pc = "start"
    /\ stack = <<>>
    /\ ret = NoRet
    /\ final_parts = <<>>
    /\ final_parts_cleaned = <<>>
    /\ result = <<>>
    /\ DateIdle
    /\ CorrIdle
    /\ LlmIdle

\* split_and_clean_paragraph: the None guard, text.strip() and the call of
\* cascading_split(clean_text, FINAL_SPLIT_ORDER); None.strip() raises AttributeError
Enter ==
    /\ pc = "start"
    /\ IF IsNone(text) THEN pc' = "done" /\ stack' = stack
       ELSE IF text = None THEN pc' = "raised" /\ stack' = stack
       ELSE pc' = "cascade" /\ stack' = <<Frame(Strip(text), 1)>>
    /\ ret' = NoRet
    /\ UNCHANGED <<text, final_parts, final_parts_cleaned, result>>
    /\ UNCHANGED <<dateVars, corrVars, llmVars>>

\* if not part.strip(): return []
BaseEmpty ==
    /\ pc = "cascade"
    /\ Top.mode = "call"
    /\ IsBlank(Top.part)
    /\ stack' = SetTop([Top EXCEPT !.mode = "ret", !.val = <<>>])
    /\ ret' = NoRet
    /\ UNCHANGED <<text, pc, final_parts, final_parts_cleaned, result>>
    /\ UNCHANGED <<dateVars, corrVars, llmVars>>

\* if not split_methods: return [part]
BaseNoMethods ==
    /\ pc = "cascade"
    /\ Top.mode = "call"
    /\ ~IsBlank(Top.part)
    /\ Top.k > NRules
    /\ stack' = SetTop([Top EXCEPT !.mode = "ret", !.val = <<Top.part>>])
    /\ ret' = NoRet
    /\ UNCHANGED <<text, pc, final_parts, final_parts_cleaned, result>>
    /\ UNCHANGED <<dateVars, corrVars, llmVars>>

\* a variant that passes the whole list on
remaining_split_methods_Whole(k) == k

\* remaining_split_methods = split_methods[1:], as the index of its first rule
remaining_split_methods(k) == k + 1

\* the stack once the frame f has computed sub_parts
AfterSplit(f, sub_parts) ==
    IF Len(sub_parts) > 1
    THEN SetTop([f EXCEPT !.mode = "loop", !.sub_parts = sub_parts, !.idx = 1,
                          !.final_parts = <<>>])
    ELSE Append(SetTop([f EXCEPT !.mode = "tail", !.sub_parts = sub_parts]),
                Frame(FailedSplitArgument(f.part, sub_parts), remaining_split_methods(f.k)))

\* sub_parts = current_split_func(part); with more than one part the loop over the
\* sub-parts starts, otherwise cascading_split(part, remaining_split_methods) is called
AttemptSplit ==
    /\ pc = "cascade"
    /\ Top.mode = "call"
    /\ ~IsBlank(Top.part)
    /\ Top.k <= NRules
    /\ stack' = AfterSplit(Top, ApplyRule(Top.k, Top.part))
    /\ ret' = NoRet
    /\ UNCHANGED <<text, pc, final_parts, final_parts_cleaned, result>>
    /\ UNCHANGED <<dateVars, corrVars, llmVars>>

\* for sub_part in sub_parts: cascading_split(sub_part, remaining_split_methods)
LoopCall ==
    /\ pc = "cascade"
    /\ Top.mode = "loop"
    /\ Top.idx <= Len(Top.sub_parts)
    /\ stack' = Append(SetTop([Top EXCEPT !.mode = "wait"]),
                       Frame(Top.sub_parts[Top.idx], remaining_split_methods(Top.k)))
    /\ ret' = NoRet
    /\ UNCHANGED <<text, pc, final_parts, final_parts_cleaned, result>>
    /\ UNCHANGED <<dateVars, corrVars, llmVars>>

\* the loop is over: return final_parts
LoopDone ==
    /\ pc = "cascade"
    /\ Top.mode = "loop"
    /\ Top.idx > Len(Top.sub_parts)
    /\ stack' = SetTop([Top EXCEPT !.mode = "ret", !.val = Top.final_parts])
    /\ ret' = NoRet
    /\ UNCHANGED <<text, pc, final_parts, final_parts_cleaned, result>>
    /\ UNCHANGED <<dateVars, corrVars, llmVars>>

\* a call returns: to final_parts.extend(...) of the caller's loop, to the caller's
\* return cascading_split(...), or to split_and_clean_paragraph
Return ==
    /\ pc = "cascade"
    /\ Top.mode = "ret"
    /\ ret' = [part |-> Top.part, k |-> Top.k, val |-> Top.val]
    /\ IF Len(stack) = 1
       THEN /\ stack' = <<>>
            /\ final_parts' = Top.val
            /\ pc' = "substitute"
       ELSE LET caller == stack[Len(stack) - 1]
                rest == SubSeq(stack, 1, Len(stack) - 2)
            IN  /\ stack' = Append(rest,
                      IF caller.mode = "wait"
                      THEN [caller EXCEPT !.mode = "loop", !.idx = caller.idx + 1,
                                          !.final_parts = caller.final_parts \o Top.val]
                      ELSE [caller EXCEPT !.mode = "ret", !.val = Top.val])
                /\ UNCHANGED <<final_parts, pc>>
    /\ UNCHANGED <<text, final_parts_cleaned, result>>
    /\ UNCHANGED <<dateVars, corrVars, llmVars>>

\* final_parts_cleaned = [substitute_patent_numbers(p) for p in final_parts]
Substitute ==
    /\ pc = "substitute"
    /\ final_parts_cleaned' =
           [j \in 1..Len(final_parts) |-> substitute_patent_numbers(final_parts[j])]
    /\ pc' = "filter"
    /\ ret' = NoRet
    /\ UNCHANGED <<text, stack, final_parts, result>>
    /\ UNCHANGED <<dateVars, corrVars, llmVars>>

\* return [p for p in final_parts_cleaned if p.strip()]
Filter ==
    /\ pc = "filter"
    /\ result' = SelectSeq(final_parts_cleaned, NonBlank)
    /\ pc' = "done"
    /\ ret' = NoRet
    /\ UNCHANGED <<text, stack, final_parts, final_parts_cleaned>>
    /\ UNCHANGED <<dateVars, corrVars, llmVars>>

Next ==
    \/ Enter
    \/ BaseEmpty
    \/ BaseNoMethods
    \/ AttemptSplit
    \/ LoopCall
    \/ LoopDone
    \/ Return
    \/ Substitute
    \/ Filter

Spec == Init /\ [][Next]_vars

(***************************************************************************)
(* DateExtractor.extract as a state machine: dpc is the position in the    *)
(* body, one step per tier of the cascade.                                 *)
(***************************************************************************)
\* no paragraph is being split
SplitIdle ==
    /\ text = <<>>
    /\ pc = "idle"
    /\ stack = <<>>
    /\ ret = NoRet
    /\ final_parts = <<>>
    /\ final_parts_cleaned = <<>>
    /\ result = <<>>

InitDate ==
    /\ paragraph \in DateInputs
    /\ dpc = "start"
    /\ day = NoneInt
    /\ month = NoneInt
    /\ year = NoneInt
    /\ has_date_range = FALSE
    /\ returned = <<>>
    /\ SplitIdle
    /\ CorrIdle
    /\ LlmIdle

\* '00000000'
NoDateFound == Zeros(8)

\* not paragraph or paragraph.strip() in ['N/A', '', 'n/a']
NoParagraph(s) ==
    s = None \/ Len(s) = 0 \/ Strip(s) \in {<<"N", "/", "A">>, <<>>, <<"n", "/", "a">>}

Current == [day |-> day, month |-> month, year |-> year]

SetDate(dt) == day' = dt.day /\ month' = dt.month /\ year' = dt.year

\* the two early returns (a paragraph that is None and passes the guard raises at
\* paragraph.strip()), then day, month, year = None, None, None and has_date_range
Begin ==
    /\ dpc = "start"
    /\ IF NoParagraph(paragraph)
       THEN /\ returned' = NoDateFound
            /\ dpc' = "done"
            /\ has_date_range' = has_date_range
       ELSE IF paragraph = None
       THEN /\ returned' = returned
            /\ dpc' = "raised"
            /\ has_date_range' = has_date_range
       ELSE IF Search(invalid_year_format, paragraph).ok
       THEN /\ returned' = NoDateFound
            /\ dpc' = "done"
            /\ has_date_range' = has_date_range
       ELSE /\ has_date_range' = Search(date_range, paragraph).ok
            /\ dpc' = "p1"
            /\ returned' = returned
    /\ SetDate(NoDate)
    /\ UNCHANGED paragraph
    /\ UNCHANGED <<splitVars, corrVars, llmVars>>

\* the step after Priority 9
AfterP9(r) ==
    /\ SetDate(r.date)
    /\ IF r.reject THEN returned' = NoDateFound /\ dpc' = "done"
       ELSE returned' = returned /\ dpc' = "p10"

\* Priority 1 (p1)
TierP1 ==
    /\ dpc = "p1"
    /\ SetDate(Priority1(paragraph, Current))
    /\ dpc' = "p2"
    /\ UNCHANGED <<paragraph, has_date_range, returned>>
    /\ UNCHANGED <<splitVars, corrVars, llmVars>>

\* Priority 2 (p2_range, p2)
TierP2 ==
    /\ dpc = "p2"
    /\ SetDate(Priority2(paragraph, Current, has_date_range))
    /\ dpc' = "p3"
    /\ UNCHANGED <<paragraph, has_date_range, returned>>
    /\ UNCHANGED <<splitVars, corrVars, llmVars>>

\* Priority 3 (p3)
TierP3 ==
    /\ dpc = "p3"
    /\ SetDate(Priority3(paragraph, Current))
    /\ dpc' = "p4_range"
    /\ UNCHANGED <<paragraph, has_date_range, returned>>
    /\ UNCHANGED <<splitVars, corrVars, llmVars>>

\* Priority 4 (p4_range)
TierP4Range ==
    /\ dpc = "p4_range"
    /\ SetDate(Priority4Range(paragraph, Current))
    /\ dpc' = "p4"
    /\ UNCHANGED <<paragraph, has_date_range, returned>>
    /\ UNCHANGED <<splitVars, corrVars, llmVars>>

\* Priority 4b (p4)
TierP4 ==
    /\ dpc = "p4"
    /\ SetDate(Priority4(paragraph, Current))
    /\ dpc' = "p5"
    /\ UNCHANGED <<paragraph, has_date_range, returned>>
    /\ UNCHANGED <<splitVars, corrVars, llmVars>>

\* Priority 5 (p5)
TierP5 ==
    /\ dpc = "p5"
    /\ SetDate(Priority5(paragraph, Current))
    /\ dpc' = "p6"
    /\ UNCHANGED <<paragraph, has_date_range, returned>>
    /\ UNCHANGED <<splitVars, corrVars, llmVars>>

\* Priority 6 (p6)
TierP6 ==
    /\ dpc = "p6"
    /\ SetDate(Priority6(paragraph, Current))
    /\ dpc' = "p7"
    /\ UNCHANGED <<paragraph, has_date_range, returned>>
    /\ UNCHANGED <<splitVars, corrVars, llmVars>>

\* Priority 7 (p7)
TierP7 ==
    /\ dpc = "p7"
    /\ SetDate(Priority7(paragraph, Current))
    /\ dpc' = "p8"
    /\ UNCHANGED <<paragraph, has_date_range, returned>>
    /\ UNCHANGED <<splitVars, corrVars, llmVars>>

\* Priority 8 (p8)
TierP8 ==
    /\ dpc = "p8"
    /\ SetDate(Priority8(paragraph, Current))
    /\ dpc' = "p9"
    /\ UNCHANGED <<paragraph, has_date_range, returned>>
    /\ UNCHANGED <<splitVars, corrVars, llmVars>>

\* Priority 9 (p9_ymd, p9_dmy), with its return '00000000'
TierP9 ==
    /\ dpc = "p9"
    /\ AfterP9(Priority9(paragraph, Current))
    /\ UNCHANGED <<paragraph, has_date_range>>
    /\ UNCHANGED <<splitVars, corrVars, llmVars>>

\* Priority 10 (p10)
TierP10 ==
    /\ dpc = "p10"
    /\ SetDate(Priority10(paragraph, Current))
    /\ dpc' = "p11"
    /\ UNCHANGED <<paragraph, has_date_range, returned>>
    /\ UNCHANGED <<splitVars, corrVars, llmVars>>

\* Priority 11 (year_any)
TierP11 ==
    /\ dpc = "p11"
    /\ SetDate(Priority11(paragraph, Current))
    /\ dpc' = "p12"
    /\ UNCHANGED <<paragraph, has_date_range, returned>>
    /\ UNCHANGED <<splitVars, corrVars, llmVars>>

\* Priority 12 (year_range)
TierP12 ==
    /\ dpc = "p12"
    /\ SetDate(Priority12(paragraph, Current))
    /\ dpc' = "p13"
    /\ UNCHANGED <<paragraph, has_date_range, returned>>
    /\ UNCHANGED <<splitVars, corrVars, llmVars>>

\* Priority 13 (year_long)
TierP13 ==
    /\ dpc = "p13"
    /\ SetDate(Priority13(paragraph, Current))
    /\ dpc' = "p14"
    /\ UNCHANGED <<paragraph, has_date_range, returned>>
    /\ UNCHANGED <<splitVars, corrVars, llmVars>>

\* Priority 14 (year_paren)
TierP14 ==
    /\ dpc = "p14"
    /\ SetDate(Priority14(paragraph, Current))
    /\ dpc' = "p15"
    /\ UNCHANGED <<paragraph, has_date_range, returned>>
    /\ UNCHANGED <<splitVars, corrVars, llmVars>>

\* Priority 15 (year_bracket)
TierP15 ==
    /\ dpc = "p15"
    /\ SetDate(Priority15(paragraph, Current))
    /\ dpc' = "format"
    /\ UNCHANGED <<paragraph, has_date_range, returned>>
    /\ UNCHANGED <<splitVars, corrVars, llmVars>>

\* if year is None: return '00000000'; otherwise the formatted date
Format ==
    /\ dpc = "format"
    /\ returned' = IF year = NoneInt THEN NoDateFound ELSE FormatDate(Current)
    /\ dpc' = "done"
    /\ UNCHANGED <<paragraph, day, month, year, has_date_range>>
    /\ UNCHANGED <<splitVars, corrVars, llmVars>>

NextDate ==
    \/ Begin
    \/ TierP1
    \/ TierP2
    \/ TierP3
    \/ TierP4Range
    \/ TierP4
    \/ TierP5
    \/ TierP6
    \/ TierP7
    \/ TierP8
    \/ TierP9
    \/ TierP10
    \/ TierP11
    \/ TierP12
    \/ TierP13
    \/ TierP14
    \/ TierP15
    \/ Format

SpecDate == InitDate /\ [][NextDate]_vars

(***************************************************************************)
(* Vocabulary of the properties.                                           *)
(***************************************************************************)
StartsWith(s, w) == Len(s) >= Len(w) /\ SubSeq(s, 1, Len(w)) = w

RECURSIVE Concat(_)
Concat(parts) == IF Len(parts) = 0 THEN <<>> ELSE Head(parts) \o Concat(Tail(parts))

\* a[i..] can be read off b[j..] from left to right
RECURSIVE SubsequenceFrom(_, _, _, _)
SubsequenceFrom(a, i, b, j) ==
    IF i > Len(a) THEN TRUE
    ELSE IF j > Len(b) THEN FALSE
    ELSE IF a[i] = b[j] THEN SubsequenceFrom(a, i + 1, b, j + 1)
    ELSE SubsequenceFrom(a, i, b, j + 1)

IsSubsequence(a, b) == SubsequenceFrom(a, 1, b, 1)

Contains(s, w) == \E i \in 0..(Len(s) - Len(w)) : Slice(s, i, i + Len(w)) = w

\* the characters of s at the indices in keep, in order
Pick(s, keep) ==
    [r \in 1..Cardinality(keep) |->
        s[CHOOSE i \in keep : Cardinality({j \in keep : j < i}) = r - 1]]

\* the indices of s inside one of the matches ms
Covered(s, ms) == {i \in 1..Len(s) : \E j \in 1..Len(ms) : ms[j].b < i /\ i <= ms[j].e}

\* the pattern whose matches are the split points of rule k
RulePattern(k) ==
    LET rule == FINAL_SPLIT_ORDER[k]
    IN  CASE rule = "split_paragraph_on_patent_number" -> PATENT_FINDER_PATTERN
          [] rule = "split_paragraph_on_dot_double_newline" -> DotDoubleNewlinePattern
          [] rule = "split_paragraph_on_punctuation_dash" -> PunctuationDashPattern
          [] rule = "split_paragraph_on_figure_enumeration" -> FigurePattern
          [] rule = "split_paragraph_on_punctuation_list_item" -> ListItemPattern
          [] rule = "split_paragraph_on_punctuation_letter_bracket" -> LetterBracketPattern
          [] rule = "split_paragraph_on_or_newline_dash" -> OrNewlineDashPattern
          [] rule = "split_paragraph_on_z_b" -> ZBPattern
          [] rule = "split_paragraph_on_arrow" -> ArrowPattern
          [] rule = "split_by_specific_example_phrase" -> SPLIT_EXAMPLE_REGEX

\* the rules that search the text as it is; the others normalize the newlines first
SearchesRawText(k) ==
    FINAL_SPLIT_ORDER[k] \in {"split_paragraph_on_patent_number", "split_paragraph_on_z_b",
                              "split_paragraph_on_arrow", "split_by_specific_example_phrase"}

\* rule k finds no split point in part
NoSplitPoint(k, part) ==
    ~Search(RulePattern(k), IF SearchesRawText(k) THEN part ELSE NormalizeNewlines(part)).ok

NoRuleMatches(t) == \A k \in 1..NRules : NoSplitPoint(k, t)

HasPatentId(t) == Search(PATENT_FINDER_PATTERN, t).ok

\* the frame whose rule the last step applied, if any
AttemptedFrames ==
    IF pc # "cascade" \/ Len(stack) = 0 THEN {}
    ELSE IF Top.mode = "loop" /\ Top.idx = 1 THEN {Top}
    ELSE IF Len(stack) >= 2 /\ Top.mode = "call" /\ stack[Len(stack) - 1].mode = "tail"
         THEN {stack[Len(stack) - 1]}
    ELSE {}

(***************************************************************************)
(* C1.                                                                     *)
(***************************************************************************)
\* the cascade as C1 words it: rules[0] is applied to part; two or more parts give
\* the in-order concatenation of the cascade with rules[1:] over the parts, fewer
\* give the cascade with rules[1:] on part itself; no rules give [part]
RECURSIVE UnconditionalCascade(_, _)
RECURSIVE CascadeOver(_, _, _)
UnconditionalCascade(part, k) ==
    IF k > NRules THEN <<part>>
    ELSE CascadeOver(part, k, ApplyRule(k, part))

CascadeOver(part, k, parts) ==
    IF Len(parts) >= 2
    THEN Concat([j \in 1..Len(parts) |-> UnconditionalCascade(parts[j], k + 1)])
    ELSE UnconditionalCascade(part, k + 1)

\* C1 as stated: every call cascading_split(part, rules) returns what the
\* unconditional cascade gives for part and rules, [part] when no rules are left
C1_CascadeAsStated == ret.k > 0 => ret.val = UnconditionalCascade(ret.part, ret.k)

\* C1, amended: a call cascading_split(part, rules) with a part that is not blank
\* returns what the unconditional cascade gives for part and rules ([part] when
\* no rules are left); a blank part returns the empty list whatever the rules
C1_Cascade ==
    ret.k > 0 =>
        ret.val = IF IsBlank(ret.part) THEN <<>> ELSE UnconditionalCascade(ret.part, ret.k)

\* a call whose first rule split its part has returned two or more chunks
C1_Witness ==
    /\ ret.k > 0
    /\ ret.k <= NRules
    /\ ~IsBlank(ret.part)
    /\ Len(ApplyRule(ret.k, ret.part)) >= 2
    /\ Len(ret.val) >= 2

(***************************************************************************)
(* C2.                                                                     *)
(***************************************************************************)
NonSpaceOutside(s, ms) == Pick(s, {i \in 1..Len(s) : s[i] \notin SpaceCh} \ Covered(s, ms))

\* the characters of t outside the patent-identifier matches, whitespace left out
OutsidePatentSpans(t) == NonSpaceOutside(t, FindIter(PATENT_FINDER_PATTERN, t))

\* the characters of t outside the patent-identifier matches, the arrows and the
\* paragraph breaks, whitespace left out
OutsideDelimiters(t) ==
    NonSpaceOutside(t, FindIter(PATENT_FINDER_PATTERN, t) \o FindIter(ArrowPattern, t)
                       \o FindIter(DotDoubleNewlinePattern, t))

\* the identifiers (group g) inside the matches ms
GroupSpans(ms, g) == [j \in 1..Len(ms) |-> [b |-> ms[j].c[g][1], e |-> ms[j].c[g][2]]]

\* the text between the two substitutions of the normalization of the chunk p
ModifiedText(p) == SubFrom(p, FindIter(PATENT_SPLIT_PATTERN, p), 1, 0)

\* the normalization of the chunk p into q removed nothing but whitespace and the
\* identifiers it replaced: those after a separator, then the one at the start
RemovesOnlyIdentifiers(p, q) ==
    /\ IsSubsequence(NonSpaceOutside(p, GroupSpans(FindIter(PATENT_SPLIT_PATTERN, p), 2)),
                     ModifiedText(p))
    /\ IsSubsequence(NonSpaceOutside(ModifiedText(p),
                         <<MatchAt(PATENT_ONLY_START_PATTERN, ModifiedText(p), 0)>>), q)

\* C2 as stated, for the characters that are not whitespace: the returned chunks,
\* in list order, contain in the original order every character of the text
\* that lies outside the patent-identifier matches
C2_ContentAsStated ==
    (pc = "done" /\ text # None) =>
        IsSubsequence(OutsidePatentSpans(text), Concat(result))

\* C2, amended (the texts write their line breaks as \n): the chunks the cascade
\* produces, in list order, contain in the original order every character of the
\* trimmed text that is not whitespace and lies outside the patent-identifier
\* matches, the arrows and the period-and-newlines paragraph breaks; the final
\* normalization removes from a chunk only whitespace and the identifiers it
\* replaces by PATENT; and the returned list is the normalized chunks without the
\* blank ones
C2_Content ==
    /\ (pc \in {"substitute", "filter", "done"} /\ text # None) =>
           IsSubsequence(OutsideDelimiters(Strip(text)), Concat(final_parts))
    /\ pc \in {"filter", "done"} =>
           /\ Len(final_parts_cleaned) = Len(final_parts)
           /\ \A j \in 1..Len(final_parts) :
                  RemovesOnlyIdentifiers(final_parts[j], final_parts_cleaned[j])
    /\ pc = "done" => result = SelectSeq(final_parts_cleaned, NonBlank)

\* a text with a patent identifier in it that the arrow rule split in two, one of the
\* returned chunks holding the placeholder
C2_Witness ==
    /\ pc = "done"
    /\ text # None
    /\ HasPatentId(text)
    /\ Search(ArrowPattern, text).ok
    /\ Len(result) >= 2
    /\ \E j \in 1..Len(result) : Contains(result[j], PATENT)

(***************************************************************************)
(* C3.                                                                     *)
(***************************************************************************)
\* C3: split_and_clean_paragraph never raises; it returns the empty list for
\* None and for an empty or whitespace-only text; for any other text every
\* returned element is non-empty and not whitespace only, and when no rule's
\* pattern matches the trimmed text the result is that trimmed text alone
C3_Robust ==
    /\ pc # "raised"
    /\ pc = "done" =>
          IF text = None \/ IsBlank(text) THEN result = <<>>
          ELSE /\ \A j \in 1..Len(result) : Len(result[j]) > 0 /\ ~IsBlank(result[j])
               /\ NoRuleMatches(Strip(text)) => result = <<Strip(text)>>

\* a text that is not blank, has whitespace to trim and matches no rule
C3_Witness ==
    /\ pc = "done"
    /\ text # None
    /\ ~IsBlank(text)
    /\ Strip(text) # text
    /\ NoRuleMatches(Strip(text))
    /\ result = <<Strip(text)>>

(***************************************************************************)
(* C4.                                                                     *)
(***************************************************************************)
THRESHOLD == 1000

\* C4, for the texts that are not blank and have no whitespace to trim: a text of
\* at most THRESHOLD characters that contains no patent identifier is returned
\* as the single element [t]
C4_ShortTextUnsplit ==
    (pc = "done" /\ text # None /\ ~IsBlank(text) /\ Strip(text) = text
        /\ Len(text) <= THRESHOLD /\ ~HasPatentId(text)) =>
        result = <<text>>

(***************************************************************************)
(* C5.                                                                     *)
(***************************************************************************)
\* the patent rule splits t, and text follows one of the identifiers
PatentSplitWithContinuation(t) ==
    /\ Len(split_paragraph_on_patent_number(t)) > 1
    /\ LET ms == FindIter(PATENT_FINDER_PATTERN, t)
       IN  \E j \in 1..Len(ms) : ~IsBlank(Slice(t, ms[j].e, Len(t)))

\* C5: when the patent rule splits on an identifier that is followed by further
\* text, a returned chunk begins with the placeholder PATENT
C5_PatentPlaceholder ==
    (pc = "done" /\ text # None /\ PatentSplitWithContinuation(Strip(text))) =>
        \E j \in 1..Len(result) : StartsWith(result[j], PATENT)

(***************************************************************************)
(* C6.                                                                     *)
(***************************************************************************)
\* C6: a rule that finds no split point in its text returns [text], the text
\* unmodified, and a rule returns two or more elements only when it found one
C6_NoMatchReturnsText ==
    \A f \in AttemptedFrames :
        /\ NoSplitPoint(f.k, f.part) => f.sub_parts = <<f.part>>
        /\ Len(f.sub_parts) >= 2 => ~NoSplitPoint(f.k, f.part)

(***************************************************************************)
(* C7.                                                                     *)
(***************************************************************************)
\* the separators before the identifiers that PATENT_SPLIT_PATTERN finds in p
SeparatorsBeforeIds(p) ==
    LET ms == FindIter(PATENT_SPLIT_PATTERN, p)
    IN  {GroupText(p, ms[j], 1) : j \in 1..Len(ms)}

\* C7: after the normalization no chunk has a patent identifier at its start or
\* directly after a separator, and each identifier that stood after a separator
\* is now that separator followed by PATENT
C7_Normalized ==
    pc \in {"filter", "done"} =>
        \A j \in 1..Len(final_parts) :
            /\ ~MatchAt(PATENT_ONLY_START_PATTERN, final_parts_cleaned[j], 0).ok
            /\ ~Search(PATENT_SPLIT_PATTERN, final_parts_cleaned[j]).ok
            /\ \A sep \in SeparatorsBeforeIds(final_parts[j]) :
                   Contains(final_parts_cleaned[j], sep \o PATENT)

(***************************************************************************)
(* C8.                                                                     *)
(***************************************************************************)
EXAMPLE == <<"E", "X", "A", "M", "P", "L", "E">>

\* C8: when the example-phrase rule splits, every part that starts at a phrase
\* begins with the marker EXAMPLE and the part before it ends with the punctuation
C8_ExampleMarker ==
    \A f \in AttemptedFrames :
        (FINAL_SPLIT_ORDER[f.k] = "split_by_specific_example_phrase"
            /\ Len(f.sub_parts) >= 2) =>
            \A j \in 2..Len(f.sub_parts) :
                /\ StartsWith(f.sub_parts[j], EXAMPLE)
                /\ f.sub_parts[j - 1][Len(f.sub_parts[j - 1])] \in {".", ":", ";"}

(***************************************************************************)
(* C9.                                                                     *)
(***************************************************************************)
EMBODIMENT == <<"E", "M", "B", "O", "D", "I", "M", "E", "N", "T">>

\* \bembodiment\b, any case
EmbodimentWord ==
    IgnoreCase(Cat(<<WordB, Lit(<<"e", "m", "b", "o", "d", "i", "m", "e", "n", "t">>), WordB>>))

\* the word stands in t, with text before it
HasEmbodimentWord(t) == Search(EmbodimentWord, t).ok /\ Search(EmbodimentWord, t).b > 0

\* C9: a text with the word embodiment that none of the rules before the last
\* one splits is split before the word, and the part starting there begins with
\* the marker EMBODIMENT
C9_EmbodimentRule ==
    (pc = "done" /\ text # None /\ ~IsBlank(text)
        /\ HasEmbodimentWord(Strip(text))
        /\ final_parts = <<Strip(text)>>) =>
        /\ Len(result) >= 2
        /\ \E j \in 1..Len(result) : StartsWith(result[j], EMBODIMENT)

IsAsciiDigits(w) == \A i \in 1..Len(w) : w[i] \in Digit

\* C10: whatever the paragraph, and whichever way extract is left (an early return,
\* the rejection inside Priority 9, the sentinel of a missing year, a partial or a
\* full date), the returned string has exactly 8 characters, each an ASCII digit.
C10_EightDigits == dpc = "done" => Len(returned) = 8 /\ IsAsciiDigits(returned)

\* extract has returned a full date whose day and month were padded to two digits,
\* read from a paragraph that holds a digit outside ASCII
C10_Witness ==
    /\ dpc = "done"
    /\ Truthy(day) /\ day < 10
    /\ Truthy(month) /\ month < 10
    /\ returned # NoDateFound
    /\ \E i \in 1..Len(paragraph) : paragraph[i] \in DigitAny \ Digit

(***************************************************************************)
(* C11.                                                                    *)
(***************************************************************************)
NA == <<"N", "/", "A">>

\* the four characters of s from index i on are digits and read as a year within
\* MIN_YEAR..CURRENT_YEAR
YearInRangeAt(s, i) ==
    /\ \A j \in 1..4 : s[i + j] \in DigitAny
    /\ ToInt(Slice(s, i, i + 4)) \in MIN_YEAR..CURRENT_YEAR

\* s holds four consecutive digits that read as a year within MIN_YEAR..CURRENT_YEAR
HoldsYearInRange(s) == \E i \in 0..(Len(s) - 4) : YearInRangeAt(s, i)

\* C11: extract never raises; it returns 00000000 for the empty string, for N/A,
\* for every paragraph on which no tier has set the year, and so for every
\* paragraph without four digits that read as a year within 1900..CURRENT_YEAR
C11_Sentinel ==
    /\ dpc # "raised"
    /\ (dpc = "done" /\ (paragraph \in {<<>>, NA} \/ year = NoneInt
                          \/ ~HoldsYearInRange(paragraph))) =>
           returned = NoDateFound

\* a paragraph with a month name and a year before 1900 has run through every tier
\* and been answered by the sentinel at the end
C11_Witness ==
    /\ dpc = "done"
    /\ paragraph # None
    /\ ~NoParagraph(paragraph)
    /\ Search(p8, paragraph).ok
    /\ ~HoldsYearInRange(paragraph)
    /\ year = NoneInt
    /\ returned = NoDateFound

(***************************************************************************)
(* C12.                                                                    *)
(***************************************************************************)
\* the fields of a result DDMMYYYY, read as numbers
ResultDay(w) == ToInt(Slice(w, 0, 2))

ResultMonth(w) == ToInt(Slice(w, 2, 4))

ResultYear(w) == ToInt(Slice(w, 4, 8))

\* C12: in every result DDMMYYYY the year is 0000, and then the whole result is
\* 00000000, or lies within 1900..CURRENT_YEAR; the month is 00 or within 01..12;
\* the day is 00 or within 01..31; and the day is not 00 only if the month is not 00
C12_FieldRanges ==
    dpc = "done" =>
        /\ Len(returned) = 8
        /\ IF ResultYear(returned) = 0 THEN returned = NoDateFound
           ELSE ResultYear(returned) \in MIN_YEAR..CURRENT_YEAR
        /\ ResultMonth(returned) \in 0..12
        /\ ResultDay(returned) \in 0..31
        /\ ResultDay(returned) # 0 => ResultMonth(returned) # 0

\* extract has returned a date with a year and a month and no day, which the
\* numeric year-month tier read from a text like 2013-12
C12_Witness ==
    /\ dpc = "done"
    /\ Search(p10, paragraph).ok
    /\ ResultYear(returned) \in MIN_YEAR..CURRENT_YEAR
    /\ ResultMonth(returned) \in 1..12
    /\ ResultDay(returned) = 0

(***************************************************************************)
(* C13.                                                                    *)
(***************************************************************************)
\* C13: the tiers are a strict priority cascade: once a tier has set the year, no
\* later step of extract changes the day, the month or the year
C13_PriorityCascade ==
    [][year # NoneInt => (day' = day /\ month' = month /\ year' = year)]_vars

\* the month-range tier has set the year alone, and the month-name tier below it,
\* whose pattern matches the paragraph as well, has left the month unset
C13_Witness ==
    /\ dpc = "done"
    /\ Search(p5, paragraph).ok
    /\ Search(p8, paragraph).ok
    /\ year # NoneInt
    /\ month = NoneInt
    /\ returned = FormatDate(Current)

(***************************************************************************)
(* C14.                                                                    *)
(***************************************************************************)
\* the result for the day d, the month m and the year y
FullDate(d, m, y) == FormatField(d, 2) \o FormatField(m, 2) \o FormatField(y, 4)

\* the result the numeric date a-b-y has to give: the ordering day a, month b if
\* it is valid, otherwise the ordering month a, day b if that one is valid
OrderingHolds(a, b, y, w) ==
    IF b \in 1..12 /\ a \in 1..31 THEN w = FullDate(a, b, y)
    ELSE IF a \in 1..12 /\ b \in 1..31 THEN w = FullDate(b, a, y)
    ELSE TRUE

\* s is, as a whole, the numeric date matched by m, and its year is valid
IsNumericDate(s, m) ==
    m.ok /\ m.e = Len(s) /\ IntGroup(s, m, 3) \in MIN_YEAR..CURRENT_YEAR

NumericDateOrdered(s, m, w) ==
    IsNumericDate(s, m) =>
        OrderingHolds(IntGroup(s, m, 1), IntGroup(s, m, 2), IntGroup(s, m, 3), w)

\* C14: for a paragraph that is a numeric date A-B-YYYY or A.B.YYYY with a valid
\* year, extract returns day A, month B when that ordering is valid, and day B,
\* month A when only that ordering is valid
C14_NumericOrdering ==
    (dpc = "done" /\ paragraph # None) =>
        NumericDateOrdered(paragraph, MatchAt(p9_dmy, paragraph, 0), returned)

(***************************************************************************)
(* C15.                                                                    *)
(***************************************************************************)
\* the patterns of the rejection and of the structured tiers, Priority 1 to 10
StructuredPatterns ==
    <<invalid_year_format, p1, p2_range, p2, p3, p4_range, p4, p5, p6, p7, p8, p9_ymd,
      p9_dmy, p10>>

\* none of them matches anywhere in s
NoStructuredMatch(s) ==
    \A k \in 1..Len(StructuredPatterns) : ~Search(StructuredPatterns[k], s).ok

\* the standalone four-digit numbers of s, one entry per occurrence, that lie
\* within MIN_YEAR..CURRENT_YEAR
StandaloneYearsOf(s, ms) ==
    SelectSeq([j \in 1..Len(ms) |-> IntGroup(s, ms[j], 1)],
              LAMBDA y : y \in MIN_YEAR..CURRENT_YEAR)

StandaloneYears(s) == StandaloneYearsOf(s, FindIter(year_any, s))

Latest(ys) == CHOOSE y \in {ys[j] : j \in 1..Len(ys)} : \A j \in 1..Len(ys) : ys[j] <= y

YearOnly(y) == <<"0", "0", "0", "0">> \o FormatField(y, 4)

LatestReturned(ys, w) == Len(ys) >= 2 => w = YearOnly(Latest(ys))

IsYearRange(s, m) ==
    /\ m.ok /\ m.e = Len(s)
    /\ IntGroup(s, m, 1) \in MIN_YEAR..CURRENT_YEAR
    /\ IntGroup(s, m, 2) \in MIN_YEAR..CURRENT_YEAR
    /\ IntGroup(s, m, 1) < IntGroup(s, m, 2)

RangeGives(s, m, g, w) == IsYearRange(s, m) => w = YearOnly(IntGroup(s, m, g))

MONTH_MAP ==
    <<<<<<"j", "a", "n">>, <<"0", "1">>>>,
      <<<<"f", "e", "b">>, <<"0", "2">>>>,
      <<<<"m", "a", "r">>, <<"0", "3">>>>,
      <<<<"a", "p", "r">>, <<"0", "4">>>>,
      <<<<"m", "a", "y">>, <<"0", "5">>>>,
      <<<<"j", "u", "n">>, <<"0", "6">>>>,
      <<<<"j", "u", "l">>, <<"0", "7">>>>,
      <<<<"a", "u", "g">>, <<"0", "8">>>>,
      <<<<"s", "e", "p">>, <<"0", "9">>>>,
      <<<<"o", "c", "t">>, <<"1", "0">>>>,
      <<<<"n", "o", "v">>, <<"1", "1">>>>,
      <<<<"d", "e", "c">>, <<"1", "2">>>>,
      <<<<"j", "a", "n", "u", "a", "r", "y">>, <<"0", "1">>>>,
      <<<<"f", "e", "b", "r", "u", "a", "r", "y">>, <<"0", "2">>>>,
      <<<<"m", "a", "r", "c", "h">>, <<"0", "3">>>>,
      <<<<"a", "p", "r", "i", "l">>, <<"0", "4">>>>,
      <<<<"j", "u", "n", "e">>, <<"0", "6">>>>,
      <<<<"j", "u", "l", "y">>, <<"0", "7">>>>,
      <<<<"a", "u", "g", "u", "s", "t">>, <<"0", "8">>>>,
      <<<<"s", "e", "p", "t", "e", "m", "b", "e", "r">>, <<"0", "9">>>>,
      <<<<"o", "c", "t", "o", "b", "e", "r">>, <<"1", "0">>>>,
      <<<<"n", "o", "v", "e", "m", "b", "e", "r">>, <<"1", "1">>>>,
      <<<<"d", "e", "c", "e", "m", "b", "e", "r">>, <<"1", "2">>>>>>

UNALLOWED_URL_CHARS == {" ", "\"", "<", ">", "{", "}", "|", "\\", "^", "~", "[", "]"}

\* a value that is neither None nor the empty string
IsSet(v) == v # None /\ v # <<>>

\* a variant that lets every value pass
IsNotNone_Always(v) == TRUE

\* v is not None
IsNotNone(v) == v # None

\* v.strip() if v is not None else ""
StripOrEmpty(v) == IF IsNotNone(v) THEN Strip(v) ELSE <<>>

\* None.strip() raises AttributeError: None has passed the guard
StripRaises(v) == IsNotNone(v) /\ v = None

\* str.split(): the words between runs of white space
RECURSIVE WordsFrom(_, _, _)
WordsFrom(s, i, word) ==
    IF i > Len(s) THEN (IF word = <<>> THEN <<>> ELSE <<word>>)
    ELSE IF s[i] \in SpaceCh
         THEN (IF word = <<>> THEN <<>> ELSE <<word>>) \o WordsFrom(s, i + 1, <<>>)
         ELSE WordsFrom(s, i + 1, Append(word, s[i]))

Words(s) == WordsFrom(s, 1, <<>>)

\* URL_SPLIT_PATTERN.split(s): the pieces between unallowed characters
RECURSIVE SplitFrom(_, _, _)
SplitFrom(s, i, piece) ==
    IF i > Len(s) THEN <<piece>>
    ELSE IF s[i] \in UNALLOWED_URL_CHARS
         THEN <<piece>> \o SplitFrom(s, i + 1, <<>>)
         ELSE SplitFrom(s, i + 1, Append(piece, s[i]))

URL_SPLIT_PATTERN_split(s) == SplitFrom(s, 1, <<>>)

\* [a-zA-Z0-9_-]
HostCh == AsciiUpper \cup {LowerOf(ch) : ch \in AsciiUpper} \cup Digit \cup {"_", "-"}

\* the end of the longest run of host characters that starts at index i
RECURSIVE HostRunEnd(_, _)
HostRunEnd(s, i) == IF i < Len(s) /\ s[i + 1] \in HostCh THEN HostRunEnd(s, i + 1) ELSE i

\* ([a-zA-Z0-9_-]+\.)+[a-zA-Z0-9_-]+/ at index i: a run of host characters is
\* followed by a dot or a slash, neither of them a host character, so each run
\* is the longest one; dots counts the runs already closed by a dot
RECURSIVE DomainAt(_, _, _)
DomainAt(s, i, dots) ==
    /\ HostRunEnd(s, i) > i
    /\ HostRunEnd(s, i) < Len(s)
    /\ IF s[HostRunEnd(s, i) + 1] = "." THEN DomainAt(s, HostRunEnd(s, i) + 1, dots + 1)
       ELSE s[HostRunEnd(s, i) + 1] = "/" /\ dots >= 1

UrlPrefixes ==
    <<<<"h", "t", "t", "p", ":", "/", "/">>, <<"h", "t", "t", "p", "s", ":", "/", "/">>, <<"f", "t", "p", ":", "/", "/">>, <<"f", "t", ":", "/", "/">>, <<"w", "w", "w", ".">>>>

\* URL_START_PATTERN.match(text), compiled with re.IGNORECASE
URL_START_PATTERN_match(s) ==
    \/ \E k \in 1..Len(UrlPrefixes) : StartsWith(Lowered(s), UrlPrefixes[k])
    \/ DomainAt(s, 0, 0)

is_valid_url_component_of(t) ==
    /\ Len(t) >= 5
    /\ \E i \in 1..Len(t) : t[i] = "."
    /\ \A i \in 1..Len(t) : t[i] \notin UNALLOWED_URL_CHARS
    /\ URL_START_PATTERN_match(t)

is_valid_url_component(s) == is_valid_url_component_of(Strip(s))

\* the loop of clean_url_by_splitting: the first valid piece, stripped, or ""
RECURSIVE FirstValidPart(_, _)
FirstValidPart(parts, i) ==
    IF i > Len(parts) THEN <<>>
    ELSE IF is_valid_url_component(parts[i]) THEN Strip(parts[i])
    ELSE FirstValidPart(parts, i + 1)

clean_url_by_splitting(potential_url_string) ==
    IF potential_url_string = <<>> THEN <<>>
    ELSE FirstValidPart(URL_SPLIT_PATTERN_split(potential_url_string), 1)

(***************************************************************************)
(* datetime.strptime, for the directives of standardize_date.              *)
(***************************************************************************)
\* calendar.month_name and calendar.month_abbr of the C locale, lower-cased
MonthNamesFull ==
    <<<<"j", "a", "n", "u", "a", "r", "y">>,
      <<"f", "e", "b", "r", "u", "a", "r", "y">>,
      <<"m", "a", "r", "c", "h">>,
      <<"a", "p", "r", "i", "l">>,
      <<"m", "a", "y">>,
      <<"j", "u", "n", "e">>,
      <<"j", "u", "l", "y">>,
      <<"a", "u", "g", "u", "s", "t">>,
      <<"s", "e", "p", "t", "e", "m", "b", "e", "r">>,
      <<"o", "c", "t", "o", "b", "e", "r">>,
      <<"n", "o", "v", "e", "m", "b", "e", "r">>,
      <<"d", "e", "c", "e", "m", "b", "e", "r">>>>

MonthNamesAbbr ==
    <<<<"j", "a", "n">>,
      <<"f", "e", "b">>,
      <<"m", "a", "r">>,
      <<"a", "p", "r">>,
      <<"m", "a", "y">>,
      <<"j", "u", "n">>,
      <<"j", "u", "l">>,
      <<"a", "u", "g">>,
      <<"s", "e", "p">>,
      <<"o", "c", "t">>,
      <<"n", "o", "v">>,
      <<"d", "e", "c">>>>

D19 == Ch(Digit \ {"0"})

\* %d: 3[0-1]|[1-2]\d|0[1-9]|[1-9]| [1-9]
DirectiveDay ==
    Grp(1, Alt(<<Cat(<<Ch({"3"}), Ch({"0", "1"})>>), Cat(<<Ch({"1", "2"}), Dg>>),
                 Cat(<<Ch({"0"}), D19>>), D19, Cat(<<Ch({" "}), D19>>)>>))

\* %m: 1[0-2]|0[1-9]|[1-9]
DirectiveMonth ==
    Grp(2, Alt(<<Cat(<<Ch({"1"}), Ch({"0", "1", "2"})>>), Cat(<<Ch({"0"}), D19>>), D19>>))

\* %Y: \d\d\d\d
DirectiveYear == Grp(3, D4)

\* %B and %b: one of the names
DirectiveName(names) == Grp(4, Alt([k \in 1..Len(names) |-> Lit(names[k])]))

\* the regular expression of one element of a format
DirectiveRegex(tok) ==
    CASE tok = "%d" -> DirectiveDay
      [] tok = "%m" -> DirectiveMonth
      [] tok = "%Y" -> DirectiveYear
      [] tok = "%B" -> DirectiveName(MonthNamesFull)
      [] tok = "%b" -> DirectiveName(MonthNamesAbbr)
      [] tok = " " -> Plus(Sp)
      [] OTHER -> Lit(<<tok>>)

FormatRegex(fmt) == IgnoreCase(Cat([k \in 1..Len(fmt) |-> DirectiveRegex(fmt[k])]))

IsLeap(y) == (y % 4 = 0 /\ y % 100 # 0) \/ y % 400 = 0

DaysIn(m, y) ==
    IF m = 2 THEN (IF IsLeap(y) THEN 29 ELSE 28)
    ELSE IF m \in {4, 6, 9, 11} THEN 30 ELSE 31

NameIndex(names, w) == CHOOSE k \in 1..Len(names) : names[k] = Lowered(w)

\* the fields strptime reads from the match m of the format; day is 1 when
\* the format has no %d
ParsedDay(s, fmt, m) ==
    IF "%d" \in Range(fmt) THEN ToInt(Strip(GroupText(s, m, 1))) ELSE 1

ParsedMonth(s, fmt, m) ==
    IF "%m" \in Range(fmt) THEN IntGroup(s, m, 2)
    ELSE IF "%B" \in Range(fmt) THEN NameIndex(MonthNamesFull, GroupText(s, m, 4))
    ELSE NameIndex(MonthNamesAbbr, GroupText(s, m, 4))

\* strptime raises ValueError unless the format matches the whole string and
\* the fields make a date of the calendar from year 1 on
StrptimeOk(s, fmt, m) ==
    /\ m.ok
    /\ m.e = Len(s)
    /\ IntGroup(s, m, 3) >= 1
    /\ ParsedDay(s, fmt, m) <= DaysIn(ParsedMonth(s, fmt, m), IntGroup(s, m, 3))

\* day_str + month_str + year_str of a parsed date; day_str is "00" when the
\* format has no %d
DateString(s, fmt, m) ==
    (IF "%d" \in Range(fmt) THEN FormatField(ParsedDay(s, fmt, m), 2) ELSE <<"0", "0">>)
        \o FormatField(ParsedMonth(s, fmt, m), 2) \o FormatField(IntGroup(s, m, 3), 4)

(***************************************************************************)
(* citation_corrections.py: standardize_date.                              *)
(***************************************************************************)
iso_format == <<"%Y", "-", "%m", "-", "%d">>

date_formats ==
    << <<"%d", " ", "%B", " ", "%Y">>,
       <<"%b", " ", "%d", " ", "%Y">>,
       <<"%Y", " ", "%b", " ", "%d">>,
       <<"%B", " ", "%d", " ", "%Y">>,
       <<"%Y", " ", "%B", " ", "%d">>,
       <<"%b", " ", "%Y">>,
       <<"%B", " ", "%Y">> >>

D2 == Rep(Dg, 2, 2)

\* ^(\d{4})-(\d{2})$
match_ym_iso == Cat(<<Bol, Grp(1, D4), Lit(<<"-">>), Grp(2, D2), Eol>>)

\* ^(\d{2})-(\d{4})$
match_my_iso == Cat(<<Bol, Grp(1, D2), Lit(<<"-">>), Grp(2, D4), Eol>>)

\* ^\d{4}$
match_y == Cat(<<Bol, D4, Eol>>)

Transformed(w) == [value |-> w, success |-> TRUE]

\* str.strip('()')
RECURSIVE StripParens(_)
StripParens(s) ==
    IF s = <<>> THEN s
    ELSE IF Head(s) \in {"(", ")"} THEN StripParens(Tail(s))
    ELSE IF s[Len(s)] \in {"(", ")"} THEN StripParens(SubSeq(s, 1, Len(s) - 1))
    ELSE s

\* re.sub(r'[\.,]', ' ', s)
DotsToSpaces(s) == [i \in 1..Len(s) |-> IF s[i] \in {".", ","} THEN " " ELSE s[i]]

\* re.sub(r'\s+', ' ', s)
RECURSIVE CollapseSpaces(_)
CollapseSpaces(s) ==
    IF s = <<>> THEN s
    ELSE IF Head(s) \in SpaceCh
         THEN (IF Len(s) > 1 /\ s[2] \in SpaceCh THEN CollapseSpaces(Tail(s))
               ELSE <<" ">> \o CollapseSpaces(Tail(s)))
         ELSE <<Head(s)>> \o CollapseSpaces(Tail(s))

\* clean_date of PHASE 1
CleanDate(original_date) ==
    Lowered(CollapseSpaces(Strip(DotsToSpaces(StripParens(original_date)))))

MonthMapEntry(p) == {k \in 1..Len(MONTH_MAP) : MONTH_MAP[k][1] = p}

\* str.isdigit() and len(p) == 4
IsYearPart(p) == Len(p) = 4 /\ \A i \in 1..4 : p[i] \in DigitAny

YearParts(parts) == SelectSeq(parts, IsYearPart)

MonthParts(parts) == SelectSeq(parts, LAMBDA p : MonthMapEntry(p) # {})

\* PHASE 3 and PHASE 4: a year alone, a year and a month name in either order,
\* or failure
Phase3(date_str, original_date, parts) ==
    IF MatchAt(match_y, original_date, 0).ok
    THEN Transformed(<<"0", "0", "0", "0">> \o original_date)
    ELSE IF Len(parts) = 2 /\ YearParts(parts) # <<>> /\ MonthParts(parts) # <<>>
    THEN Transformed(<<"0", "0">>
                       \o MONTH_MAP[CHOOSE k \in MonthMapEntry(MonthParts(parts)[1]) : TRUE][2]
                       \o YearParts(parts)[1])
    ELSE [value |-> date_str, success |-> FALSE]

\* the loop over date_formats of PHASE 1
RECURSIVE Phase1(_, _, _, _)
Phase1(date_str, original_date, clean_date, k) ==
    IF k > Len(date_formats) THEN Phase3(date_str, original_date, Words(clean_date))
    ELSE IF StrptimeOk(clean_date, date_formats[k],
                       MatchAt(FormatRegex(date_formats[k]), clean_date, 0))
    THEN Transformed(DateString(clean_date, date_formats[k],
                                MatchAt(FormatRegex(date_formats[k]), clean_date, 0)))
    ELSE Phase1(date_str, original_date, clean_date, k + 1)

\* PHASE 0: the numeric formats
Phase0(date_str, original_date) ==
    IF StrptimeOk(original_date, iso_format, MatchAt(FormatRegex(iso_format), original_date, 0))
    THEN Transformed(DateString(original_date, iso_format,
                                MatchAt(FormatRegex(iso_format), original_date, 0)))
    ELSE IF MatchAt(match_ym_iso, original_date, 0).ok
    THEN Transformed(<<"0", "0">>
                       \o GroupText(original_date, MatchAt(match_ym_iso, original_date, 0), 2)
                       \o GroupText(original_date, MatchAt(match_ym_iso, original_date, 0), 1))
    ELSE IF MatchAt(match_my_iso, original_date, 0).ok
    THEN Transformed(<<"0", "0">>
                       \o GroupText(original_date, MatchAt(match_my_iso, original_date, 0), 1)
                       \o GroupText(original_date, MatchAt(match_my_iso, original_date, 0), 2))
    ELSE Phase1(date_str, original_date, CleanDate(original_date), 1)

\* a variant that reports success only
standardize_date_KeepsText(date_str) ==
    IF ~IsSet(date_str) THEN [value |-> None, success |-> FALSE]
    ELSE [value |-> date_str, success |-> Phase0(date_str, Strip(date_str)).success]

standardize_date(date_str) ==
    IF ~IsSet(date_str) THEN [value |-> None, success |-> FALSE]
    ELSE Phase0(date_str, Strip(date_str))

(***************************************************************************)
(* citation_corrections.py: correct_npl_mistakes, one step per heuristic,  *)
(* on reference records.  A field that is None or absent holds None; the   *)
(* author list is a sequence of names, empty when it is None or absent.    *)
(***************************************************************************)
MaxUrlFrags == 2

MaxCalls == 2

Titles ==
    {None,
      <<>>,
      <<"N", "a", "t", "u", "r", "e">>,
      <<"T", "h", "e">>,
      <<"T", "h", "e", " ", "A", " ", "B", " ", "C">>,
      <<"S", "m", "i", "t", "h", " ", "J">>}

Publishers ==
    {None,
      <<>>,
      <<"A", "C", "M">>,
      <<"W", "i", "l", "e", "y">>}

AuthorLists ==
    {<<>>, <<<<"S", "m", "i", "t", "h">>>>, <<<<"S", "m", "i", "t", "h">>, <<"L", "e", "e">>>>}

UrlFragments ==
    {<<"D", "O", "I", ":">>,
      <<"1", "0", ".", "1", "/", "x">>,
      <<" ">>,
      <<"[">>,
      <<"w", "w", "w", ".", "a", ".", "b">>}

RECURSIVE UrlsOf(_)
UrlsOf(n) ==
    IF n = 0 THEN {<<>>}
    ELSE {u \o f : u \in UrlsOf(n - 1), f \in UrlFragments} \cup {<<>>}

Urls == UrlsOf(MaxUrlFrags) \cup {None}

PublicationDates ==
    {None,
      <<" ", "2", "0", "1", "8">>,
      <<"2", "0", "2", "0", "-", "0", "1", "-", "0", "9">>,
      <<"0", "4", "-", "2", "0", "1", "9">>,
      <<"D", "e", "c", ".", " ", "1", "7", ",", " ", "2", "0", "0", "2">>,
      <<"2", "0", "1", "9", "-", "0", "2", "-", "3", "0">>}

References ==
    [title : Titles, publisher : Publishers, url : Urls, author : AuthorLists,
     publication_date : PublicationDates]

InitCorrections ==
    /\ reference \in References
    /\ entry = reference
    /\ title = <<>>
    /\ url = <<>>
    /\ corrected = FALSE
    /\ cpc = "call"
    /\ passes = <<>>
    /\ SplitIdle
    /\ DateIdle
    /\ LlmIdle

\* the prefixes of str.startswith in Heuristic 1
JournalIndicators ==
    <<<<"t", "h", "e">>,
      <<"j", ".">>,
      <<"j", "o", "u", "r", "n", "a", "l">>,
      <<"n", "a", "t", "u", "r", "e">>,
      <<"s", "c", "i", "e", "n", "c", "e">>,
      <<"b", "i", "o", "c", "h", "e", "m", "i", "s", "t", "r", "y">>>>

\* the two conditions of Heuristic 1 on the stripped title and publisher
SwapApplies(t, p) ==
    /\ Len(Words(t)) > 0
    /\ Len(Words(t)) < 4
    /\ p = <<>>
    /\ \E k \in 1..Len(JournalIndicators) : StartsWith(Lowered(t), JournalIndicators[k])

\* corrected = False, the stripped locals and Heuristic 1: a short title that
\* starts like a journal name moves to the empty publisher
Heuristic1 ==
    /\ cpc = "call"
    /\ IF StripRaises(reference.title) \/ StripRaises(reference.publisher)
          \/ StripRaises(reference.url)
       THEN /\ cpc' = "raised"
            /\ UNCHANGED <<reference, corrected, title, url>>
       ELSE /\ IF SwapApplies(StripOrEmpty(reference.title),
                              StripOrEmpty(reference.publisher))
               THEN /\ reference' =
                          [reference EXCEPT !.publisher = StripOrEmpty(reference.title),
                                            !.title = <<>>]
                    /\ corrected' = TRUE
                    /\ title' = <<>>
               ELSE /\ reference' = reference
                    /\ corrected' = FALSE
                    /\ title' = StripOrEmpty(reference.title)
            /\ url' = StripOrEmpty(reference.url)
            /\ cpc' = "h2"
    /\ UNCHANGED <<entry, passes>>
    /\ UNCHANGED <<splitVars, dateVars, llmVars>>

DoiOrg == <<"h", "t", "t", "p", "s", ":", "/", "/", "d", "o", "i", ".", "o", "r", "g", "/">>

HasDoiPrefix(u) == StartsWith(Lowered(u), <<"d", "o", "i", ":">>)

IsBareDoi(u) == StartsWith(u, <<"1", "0", ".">>) /\ ~StartsWith(Lowered(u), <<"h", "t", "t", "p">>)

\* the url of Heuristics 2 and 3
RepairDoi(u) ==
    IF HasDoiPrefix(u) THEN DoiOrg \o Strip(SubSeq(u, 5, Len(u)))
    ELSE IF IsBareDoi(u) THEN DoiOrg \o u
    ELSE u

\* Heuristics 2 and 3: a doi: prefix or a bare DOI becomes a doi.org address
Heuristic2and3 ==
    /\ cpc = "h2"
    /\ IF url # <<>> /\ (HasDoiPrefix(url) \/ IsBareDoi(url))
       THEN /\ url' = RepairDoi(url)
            /\ reference' = [reference EXCEPT !.url = RepairDoi(url)]
            /\ corrected' = TRUE
       ELSE UNCHANGED <<url, reference, corrected>>
    /\ cpc' = "h4"
    /\ UNCHANGED <<entry, title, passes>>
    /\ UNCHANGED <<splitVars, dateVars, llmVars>>

\* Heuristic 4: the url is replaced by its first valid piece when that differs
\* from the stripped url
Heuristic4 ==
    /\ cpc = "h4"
    /\ IF IsSet(reference.url)
          /\ Strip(reference.url) # clean_url_by_splitting(Strip(reference.url))
       THEN /\ reference' = [reference EXCEPT
                               !.url = clean_url_by_splitting(Strip(reference.url))]
            /\ corrected' = TRUE
       ELSE UNCHANGED <<reference, corrected>>
    /\ cpc' = "h5"
    /\ UNCHANGED <<entry, title, url, passes>>
    /\ UNCHANGED <<splitVars, dateVars, llmVars>>

\* the two checks of Heuristic 5
NamesSingleAuthor(authors_list, t) ==
    /\ Len(authors_list) = 1
    /\ t # <<>>
    /\ Len(Lowered(Strip(authors_list[1]))) >= 2
    /\ Contains(Lowered(Strip(t)), Lowered(Strip(authors_list[1])))

\* Heuristic 5: a title that holds the name of the only author is cleared
Heuristic5 ==
    /\ cpc = "h5"
    /\ IF NamesSingleAuthor(reference.author, title)
       THEN /\ reference' = [reference EXCEPT !.title = <<>>]
            /\ corrected' = TRUE
            /\ title' = <<>>
       ELSE UNCHANGED <<reference, corrected, title>>
    /\ cpc' = "h6"
    /\ UNCHANGED <<entry, url, passes>>
    /\ UNCHANGED <<splitVars, dateVars, llmVars>>

\* Heuristic 6: a publication date that standardize_date transforms is replaced
Heuristic6 ==
    /\ cpc = "h6"
    /\ IF StripRaises(reference.publication_date)
       THEN UNCHANGED <<reference, corrected>>
       ELSE IF StripOrEmpty(reference.publication_date) # <<>>
          /\ standardize_date(StripOrEmpty(reference.publication_date)).success
       THEN /\ reference' =
                  [reference EXCEPT !.publication_date =
                      standardize_date(StripOrEmpty(reference.publication_date)).value]
            /\ corrected' =
                  (corrected \/ StripOrEmpty(reference.publication_date) #
                      standardize_date(StripOrEmpty(reference.publication_date)).value)
       ELSE UNCHANGED <<reference, corrected>>
    /\ cpc' = IF StripRaises(reference.publication_date) THEN "raised" ELSE "h7"
    /\ UNCHANGED <<entry, title, url, passes>>
    /\ UNCHANGED <<splitVars, dateVars, llmVars>>

\* the test of Heuristics 7 and 8 on a field
IsTooShort(v) == StripOrEmpty(v) # <<>> /\ Len(StripOrEmpty(v)) < 4

\* Heuristic 7: a publisher of fewer than 4 characters is removed
Heuristic7 ==
    /\ cpc = "h7"
    /\ IF ~StripRaises(reference.publisher) /\ IsTooShort(reference.publisher)
       THEN /\ reference' = [reference EXCEPT !.publisher = <<>>]
            /\ corrected' = TRUE
       ELSE UNCHANGED <<reference, corrected>>
    /\ cpc' = IF StripRaises(reference.publisher) THEN "raised" ELSE "h8"
    /\ UNCHANGED <<entry, title, url, passes>>
    /\ UNCHANGED <<splitVars, dateVars, llmVars>>

\* Heuristic 8: a title of fewer than 4 characters is removed
Heuristic8 ==
    /\ cpc = "h8"
    /\ IF StripRaises(reference.title)
       THEN /\ cpc' = "raised"
            /\ UNCHANGED <<reference, corrected, title>>
       ELSE /\ IF IsTooShort(reference.title)
               THEN /\ reference' = [reference EXCEPT !.title = <<>>]
                    /\ corrected' = TRUE
               ELSE UNCHANGED <<reference, corrected>>
            /\ title' = StripOrEmpty(reference.title)
            /\ cpc' = "return"
    /\ UNCHANGED <<entry, url, passes>>
    /\ UNCHANGED <<splitVars, dateVars, llmVars>>

\* return corrected: the call is recorded with the record on entry, the record
\* on return and the value returned
ReturnCorrected ==
    /\ cpc = "return"
    /\ passes' = Append(passes, [before |-> entry, after |-> reference, ret |-> corrected])
    /\ cpc' = "done"
    /\ UNCHANGED <<reference, entry, title, url, corrected>>
    /\ UNCHANGED <<splitVars, dateVars, llmVars>>

\* the caller applies correct_npl_mistakes to the same record once more
CallAgain ==
    /\ cpc = "done"
    /\ Len(passes) < MaxCalls
    /\ entry' = reference
    /\ cpc' = "call"
    /\ UNCHANGED <<reference, title, url, corrected, passes>>
    /\ UNCHANGED <<splitVars, dateVars, llmVars>>

NextCorrections ==
    \/ Heuristic1
    \/ Heuristic2and3
    \/ Heuristic4
    \/ Heuristic5
    \/ Heuristic6
    \/ Heuristic7
    \/ Heuristic8
    \/ ReturnCorrected
    \/ CallAgain

SpecCorrections == InitCorrections /\ [][NextCorrections]_vars

(***************************************************************************)
(* C17.                                                                    *)
(***************************************************************************)
\* C17: a second call of correct_npl_mistakes on the record returned by a first
\* call leaves every field as the first call left it
C17_Idempotent ==
    (cpc = "done" /\ Len(passes) = 2) => passes[2].after = passes[1].after

(***************************************************************************)
(* C18.                                                                    *)
(***************************************************************************)
FieldsDiffer(b, a) ==
    \/ b.title # a.title
    \/ b.publisher # a.publisher
    \/ b.url # a.url
    \/ b.publication_date # a.publication_date

\* C18: a call returns True exactly when title, publisher, url or
\* publication_date has another value on return than on entry
C18_ReturnsChanged ==
    \A k \in 1..Len(passes) :
        passes[k].ret <=> FieldsDiffer(passes[k].before, passes[k].after)

\* a first call that changed the publication date alone and returned True,
\* followed by a call that changed nothing and returned False
C18_Witness ==
    /\ cpc = "done"
    /\ Len(passes) = 2
    /\ passes[1].ret
    /\ passes[1].before.publication_date # passes[1].after.publication_date
    /\ passes[1].before.title = passes[1].after.title
    /\ passes[1].before.publisher = passes[1].after.publisher
    /\ passes[1].before.url = passes[1].after.url
    /\ IsSet(passes[1].before.url)
    /\ ~passes[2].ret
    /\ passes[2].before = passes[2].after

(***************************************************************************)
(* C19.                                                                    *)
(***************************************************************************)
\* the trimmed title has one to three words and starts, in lower case, with a
\* journal indicator, and the publisher is empty
SwapConditions(r) == SwapApplies(StripOrEmpty(r.title), StripOrEmpty(r.publisher))

SwapOutcome(b, a) ==
    IF SwapConditions(b)
    THEN a.publisher = StripOrEmpty(b.title) /\ a.title = <<>>
    ELSE a.publisher = b.publisher \/ a.publisher = <<>>

\* C19: when the conditions of the swap hold on entry, the publisher holds the
\* former title on return and the title is empty; when one of them fails, the
\* title is not moved to the publisher
C19_Swap ==
    \A k \in 1..Len(passes) : SwapOutcome(passes[k].before, passes[k].after)

(***************************************************************************)
(* C20.                                                                    *)
(***************************************************************************)
\* the first qualifying piece of the DOI-repaired url, or the empty string
FirstQualifying(u) == clean_url_by_splitting(RepairDoi(Strip(u)))

\* C20: a url that holds text on entry is, on return, the first piece of the
\* DOI-repaired url that qualifies, and the empty string if none does
C20_UrlFragment ==
    \A k \in 1..Len(passes) :
        StripOrEmpty(passes[k].before.url) # <<>> =>
            passes[k].after.url = FirstQualifying(passes[k].before.url)

(***************************************************************************)
(* C26.                                                                    *)
(***************************************************************************)
\* every call on the stack has a rule list one shorter than its caller's, the
\* outermost call has the whole list, and the deepest call has the empty list
ShrinkingRuleLists ==
    /\ Len(stack) <= NRules + 1
    /\ \A i \in 1..Len(stack) : stack[i].k = i

\* the rank of a call: a call that has not applied its rule is above one that
\* loops over its sub-parts or waits for a callee, which falls with every
\* sub-part done and is above a call that has its value; no call is lowest
FrameRank(f) ==
    CASE f.mode = "call" -> <<2, 0>>
      [] f.mode = "loop" -> <<1, 2 * (Len(f.sub_parts) + 1 - f.idx) + 1>>
      [] f.mode = "wait" -> <<1, 2 * (Len(f.sub_parts) + 1 - f.idx)>>
      [] f.mode = "tail" -> <<1, 0>>
      [] OTHER -> <<0, 1>>

PhaseRank(p) ==
    CASE p = "start" -> 4
      [] p = "cascade" -> 3
      [] p = "substitute" -> 2
      [] p = "filter" -> 1
      [] OTHER -> 0

\* the rank of a state: the phase, then the ranks of the calls from the outermost
\* to depth len(rules) + 1
RankOf(p, st) ==
    <<PhaseRank(p)>> \o
    [j \in 1..(2 * (NRules + 1)) |->
        IF (j + 1) \div 2 <= Len(st) THEN FrameRank(st[(j + 1) \div 2])[2 - (j % 2)]
        ELSE 0]

\* a is below b in the lexicographic order of sequences of naturals of one length
LexLess(a, b) ==
    \E j \in 1..Len(a) : a[j] < b[j] /\ \A i \in 1..(j - 1) : a[i] = b[i]

\* C26: every recursive call of cascading_split receives a strictly shorter rule
\* list, so the depth of the recursion never exceeds len(rules) + 1 and no rule is
\* applied twice along a path; and every step of split_and_clean_paragraph lowers
\* a rank in a well-founded order, so every run ends
C26_Terminates ==
    /\ [](ShrinkingRuleLists)
    /\ [][LexLess(RankOf(pc', stack'), RankOf(pc, stack))]_vars

\* the deepest recursion: a call with the empty rule list below len(rules) calls
C26_Witness ==
    /\ pc = "cascade"
    /\ Len(stack) = NRules + 1
    /\ Top.k = NRules + 1
    /\ Top.mode = "call"

(***************************************************************************)
(* C27.                                                                    *)
(***************************************************************************)
\* the order of C27: patent-reference, period+double-newline,
\* punctuation+newline+dash, figure-enumeration, numbered-list-item,
\* lettered-list-item, or+dash-continuation, z. B., arrow, example-phrase
StatedOrder ==
    <<"split_paragraph_on_patent_number",
      "split_paragraph_on_dot_double_newline",
      "split_paragraph_on_punctuation_dash",
      "split_paragraph_on_figure_enumeration",
      "split_paragraph_on_punctuation_list_item",
      "split_paragraph_on_punctuation_letter_bracket",
      "split_paragraph_on_or_newline_dash",
      "split_paragraph_on_z_b",
      "split_paragraph_on_arrow",
      "split_by_specific_example_phrase">>

\* the call callee was made by caller: on one of the two or more parts the
\* caller's rule gave, or on the caller's own part when its rule gave fewer
CalledBy(caller, callee) ==
    IF caller.mode = "wait"
    THEN /\ caller.sub_parts = ApplyRule(caller.k, caller.part)
         /\ Len(caller.sub_parts) > 1
         /\ callee.part = caller.sub_parts[caller.idx]
    ELSE /\ caller.mode = "tail"
         /\ Len(ApplyRule(caller.k, caller.part)) <= 1
         /\ callee.part = caller.part

\* C27: the call at depth i applies the i-th rule of the stated order, the
\* outermost call works on the stripped text, and every deeper call works on a
\* part its caller's rule gave, or on the caller's part when that rule did not split
C27_RuleOrder ==
    /\ \A i \in 1..Len(stack) :
          stack[i].k <= NRules => FINAL_SPLIT_ORDER[stack[i].k] = StatedOrder[i]
    /\ Len(stack) >= 1 => stack[1].part = Strip(text)
    /\ \A i \in 2..Len(stack) : CalledBy(stack[i - 1], stack[i])

\* two rules both split the text of a call: the earlier one has split it, and the
\* later one, which also splits that text, is splitting one of the parts
C27_Witness ==
    /\ pc = "cascade"
    /\ \E i \in 1..Len(stack) : \E j \in (i + 1)..Len(stack) :
          /\ stack[i].mode = "wait"
          /\ stack[j].mode = "loop"
          /\ Len(ApplyRule(stack[j].k, stack[i].part)) > 1

(***************************************************************************)
(* correct_npl_mistakes next to DateExtractor.extract on the publication   *)
(* date of the record: both run on the same string, in any interleaving.   *)
(***************************************************************************)
DelegationDates ==
    (PublicationDates \ {None}) \cup
    {<<"2", "4", " ", "O", "k", "t", ".", " ", "2", "0", "1", "3">>,
     <<"1", "8", "9", "9">>,
     <<"n", ".", "d", ".">>}

InitDelegation ==
    /\ \E d \in DelegationDates :
          /\ reference = [title |-> None, publisher |-> None, url |-> None, author |-> <<>>,
                          publication_date |-> d]
          /\ paragraph = d
    /\ entry = reference
    /\ title = <<>>
    /\ url = <<>>
    /\ corrected = FALSE
    /\ cpc = "call"
    /\ passes = <<>>
    /\ dpc = "start"
    /\ day = NoneInt
    /\ month = NoneInt
    /\ year = NoneInt
    /\ has_date_range = FALSE
    /\ returned = <<>>
    /\ SplitIdle
    /\ LlmIdle

NextDelegation == NextCorrections \/ NextDate

SpecDelegation == InitDelegation /\ [][NextDelegation]_vars

(***************************************************************************)
(* C21.                                                                    *)
(***************************************************************************)
\* the publication date a call that delegates to the extractor leaves: the
\* extracted date w unless it is 00000000, else the date d on entry
Delegated(d, w) == IF w # NoDateFound THEN w ELSE d

\* C21: after correct_npl_mistakes the publication date is what
\* DateExtractor.extract gives for the date on entry when that is not 00000000,
\* and the date on entry otherwise
C21_Delegates ==
    (Len(passes) >= 1 /\ dpc = "done") =>
        passes[1].after.publication_date = Delegated(paragraph, returned)

(***************************************************************************)
(* C22.                                                                    *)
(***************************************************************************)
\* C22: no call of correct_npl_mistakes raises; once the locals are set they are
\* strings, None having become the empty string; every call that has returned
\* has returned a boolean
C22_NeverRaises ==
    /\ cpc # "raised"
    /\ cpc \notin {"idle", "call"} => (title # None /\ url # None)
    /\ \A k \in 1..Len(passes) : passes[k].ret \in BOOLEAN

\* a record whose title, publisher, url and publication date are None and whose
\* author list is absent has gone through a whole call, which returned False
C22_Witness ==
    /\ cpc = "done"
    /\ Len(passes) >= 1
    /\ passes[1].before = [title |-> None, publisher |-> None, url |-> None,
                           author |-> <<>>, publication_date |-> None]
    /\ passes[1].after = passes[1].before
    /\ ~passes[1].ret

(***************************************************************************)
(* llm_client.neutralize_quantitative_noise: weight percentages and their  *)
(* ratios are replaced by placeholders before the text goes to the model.  *)
(***************************************************************************)
\* \d+\.?\d*
WtNumber == Cat(<<Plus(Ch(DigitAny)), Opt(Ch({"."})), Star(Ch(DigitAny))>>)

\* \s?wt%
WtUnit == Cat(<<Opt(Ch(SpaceCh)), Lit(<<"w", "t", "%">>)>>)

SINGLE_WT_PERCENT_REGEX == IgnoreCase(Cat(<<Grp(1, WtNumber), WtUnit>>))

RATIO_WT_PERCENT_REGEX ==
    IgnoreCase(Cat(<<Grp(1, WtNumber), WtUnit, Opt(Ch(SpaceCh)), Lit(<<"/">>),
                     Opt(Ch(SpaceCh)), Grp(2, WtNumber), WtUnit>>))

A_DEFINED_RATIO == <<"[", "A", "_", "D", "E", "F", "I", "N", "E", "D", "_", "R", "A", "T", "I", "O", "]">>

A_CERTAIN_AMOUNT == <<"[", "A", "_", "C", "E", "R", "T", "A", "I", "N", "_", "A", "M", "O", "U", "N", "T", "]">>

\* pattern.sub(repl, s) for a replacement without group references: the
\* non-overlapping matches ms of the pattern, from left to right, give way to repl
RECURSIVE ReplaceFrom(_, _, _, _, _)
ReplaceFrom(s, ms, repl, j, last) ==
    IF j > Len(ms) THEN Slice(s, last, Len(s))
    ELSE Slice(s, last, ms[j].b) \o repl \o ReplaceFrom(s, ms, repl, j + 1, ms[j].e)

ReSub(re, repl, s) == ReplaceFrom(s, FindIter(re, s), repl, 1, 0)

\* variant: the ratio pass leaves the text as it is
RatioSubstituted_Skipped(p) == p

\* paragraph = RATIO_WT_PERCENT_REGEX.sub(r'[A_DEFINED_RATIO]', paragraph)
RatioSubstituted(p) == ReSub(RATIO_WT_PERCENT_REGEX, A_DEFINED_RATIO, p)

\* paragraph = SINGLE_WT_PERCENT_REGEX.sub(r'[A_CERTAIN_AMOUNT]', paragraph)
SingleSubstituted(p) == ReSub(SINGLE_WT_PERCENT_REGEX, A_CERTAIN_AMOUNT, p)

MaxNoiseFrags == 5

NoiseFragments == {<<"6", "w", "t", "%">>, <<"/">>, <<" ">>, <<"2", ".", "5", " ", "W", "T", "%">>, <<"x">>}

RECURSIVE NoiseTextsOf(_)
NoiseTextsOf(n) ==
    IF n = 0 THEN {<<>>}
    ELSE LET shorter == NoiseTextsOf(n - 1)
         IN  shorter \cup {t \o f : t \in shorter, f \in NoiseFragments}

NoiseTexts == NoiseTextsOf(MaxNoiseFrags)

InitNoise ==
    /\ noisy \in NoiseTexts
    /\ neutral = noisy
    /\ npc = "ratio"
    /\ SplitIdle
    /\ DateIdle
    /\ CorrIdle
    /\ BioIdle
    /\ NewCatalog
    /\ ApiIdle
    /\ PipeIdle

\* the first statement of neutralize_quantitative_noise
NeutralizeRatios ==
    /\ npc = "ratio"
    /\ neutral' = RatioSubstituted(neutral)
    /\ npc' = "single"
    /\ UNCHANGED noisy
    /\ UNCHANGED <<splitVars, dateVars, corrVars, bioVars, catVars, apiVars, pipeVars>>

\* the second statement
NeutralizeSingles ==
    /\ npc = "single"
    /\ neutral' = SingleSubstituted(neutral)
    /\ npc' = "done"
    /\ UNCHANGED noisy
    /\ UNCHANGED <<splitVars, dateVars, corrVars, bioVars, catVars, apiVars, pipeVars>>

NextNoise == NeutralizeRatios \/ NeutralizeSingles

SpecNoise == InitNoise /\ [][NextNoise]_vars

\* the number of places where w occurs in s
OccurrencesOf(w, s) == Cardinality({i \in 1..(Len(s) - Len(w) + 1) : SubSeq(s, i, i + Len(w) - 1) = w})

\* the single values of the input that are no part of a ratio
RECURSIVE OutsideAll(_, _, _)
OutsideAll(m, spans, j) ==
    \/ j > Len(spans)
    \/ /\ (m.e <= spans[j].b \/ m.b >= spans[j].e)
       /\ OutsideAll(m, spans, j + 1)

RemainingSingles(s) ==
    LET ratios == FindIter(RATIO_WT_PERCENT_REGEX, s)
        singles == FindIter(SINGLE_WT_PERCENT_REGEX, s)
    IN  {j \in 1..Len(singles) : OutsideAll(singles[j], ratios, 1)}

\* C23: the ratio pass runs before the single-value pass, so that in the
\* returned text every ratio Xwt%/Ywt% of the input stands as one
\* [A_DEFINED_RATIO] and none of its two values as [A_CERTAIN_AMOUNT], every
\* single value outside a ratio stands as [A_CERTAIN_AMOUNT], and no weight
\* percentage is left
C23_RatioFirst ==
    /\ npc = "single" => ~Search(RATIO_WT_PERCENT_REGEX, neutral).ok
    /\ npc = "done" =>
          /\ OccurrencesOf(A_DEFINED_RATIO, neutral)
                 = Len(FindIter(RATIO_WT_PERCENT_REGEX, noisy))
          /\ OccurrencesOf(A_CERTAIN_AMOUNT, neutral)
                 = Cardinality(RemainingSingles(noisy))
          /\ ~Search(SINGLE_WT_PERCENT_REGEX, neutral).ok

\* a text with a ratio and a single value has been neutralized
C23_Witness ==
    /\ npc = "done"
    /\ Len(FindIter(RATIO_WT_PERCENT_REGEX, noisy)) = 1
    /\ Cardinality(RemainingSingles(noisy)) = 1
    /\ OccurrencesOf(A_DEFINED_RATIO, neutral) = 1
    /\ OccurrencesOf(A_CERTAIN_AMOUNT, neutral) = 1

(***************************************************************************)
(* The accession path of extract_paragraphs: utils.simplify_bio_numbers    *)
(* and then utils.simplify_long_words(text, max_length=20).                *)
(***************************************************************************)
SEQUENCE_ID == <<"S", "E", "Q", "U", "E", "N", "C", "E", "_", "I", "D">>

BASEPAIR == <<"B", "A", "S", "E", "P", "A", "I", "R">>

POSITION_RANGE == <<"P", "O", "S", "I", "T", "I", "O", "N", "_", "R", "A", "N", "G", "E">>

FORMULA == <<"F", "O", "R", "M", "U", "L", "A">>

\* r'SEQ ID NO:\s*\d+', re.IGNORECASE
SeqIdPattern ==
    IgnoreCase(Cat(<<Lit(<<"S", "E", "Q", " ", "I", "D", " ", "N", "O", ":">>), Star(Ch(SpaceCh)), Plus(Ch(DigitAny))>>))

\* r'\b\d{1,4}-bp\b', re.IGNORECASE
BasePairPattern ==
    IgnoreCase(Cat(<<WordB, Rep(Ch(DigitAny), 1, 4), Lit(<<"-", "b", "p">>), WordB>>))

\* r'positions \d+\s*to\s*\d+', re.IGNORECASE
PositionsPattern ==
    IgnoreCase(Cat(<<Lit(<<"p", "o", "s", "i", "t", "i", "o", "n", "s", " ">>), Plus(Ch(DigitAny)), Star(Ch(SpaceCh)),
                     Lit(<<"t", "o">>), Star(Ch(SpaceCh)), Plus(Ch(DigitAny))>>))

\* the end (exclusive, 0-based) of the run of non-whitespace characters starting at i
RECURSIVE WordEnd(_, _)
WordEnd(s, i) == IF i < Len(s) /\ s[i + 1] \notin SpaceCh THEN WordEnd(s, i + 1) ELSE i

\* the callback of simplify_long_words
replace_if_long(word, max_length) == IF Len(word) > max_length THEN FORMULA ELSE word

\* re.sub(r'\S+', replace_if_long, text) from index i on
RECURSIVE LongWordsFrom(_, _, _)
LongWordsFrom(s, i, max_length) ==
    IF i >= Len(s) THEN <<>>
    ELSE IF s[i + 1] \in SpaceCh THEN <<s[i + 1]>> \o LongWordsFrom(s, i + 1, max_length)
    ELSE replace_if_long(Slice(s, i, WordEnd(s, i)), max_length)
         \o LongWordsFrom(s, WordEnd(s, i), max_length)

simplify_long_words(s, max_length) == LongWordsFrom(s, 0, max_length)

\* max_length=20 at the call in extract_paragraphs
MAX_LENGTH == 20

MaxBioFrags == 3

BioFragments == {<<"S", "E", "Q", " ", "I", "D", " ", "N", "O", ":", "1">>, <<"/">>, <<" ">>, <<"3", "3", "0", "-", "b", "p">>, <<"P", "o", "s", "i", "t", "i", "o", "n", "s", " ", "1", " ", "t", "o", " ", "9">>, <<"n", "u", "c", "l", "e", "o", "t", "i", "d", "e">>}

RECURSIVE BioTextsOf(_)
BioTextsOf(n) ==
    IF n = 0 THEN {<<>>}
    ELSE LET shorter == BioTextsOf(n - 1)
         IN  shorter \cup {t \o f : t \in shorter, f \in BioFragments}

BioTexts == BioTextsOf(MaxBioFrags)

InitRedaction ==
    /\ text_for_accession \in BioTexts
    /\ simplified_bio_text = text_for_accession
    /\ simplified_text = <<>>
    /\ bpc = "seq_id"
    /\ SplitIdle
    /\ DateIdle
    /\ CorrIdle
    /\ NoiseIdle
    /\ NewCatalog
    /\ ApiIdle
    /\ PipeIdle

\* text = re.sub(r'SEQ ID NO:\s*\d+', 'SEQUENCE_ID', text, flags=re.IGNORECASE)
ReplaceSeqIds ==
    /\ bpc = "seq_id"
    /\ simplified_bio_text' = ReSub(SeqIdPattern, SEQUENCE_ID, simplified_bio_text)
    /\ bpc' = "bp"
    /\ UNCHANGED <<text_for_accession, simplified_text>>
    /\ UNCHANGED <<splitVars, dateVars, corrVars, noiseVars, catVars, apiVars, pipeVars>>

\* text = re.sub(r'\b\d{1,4}-bp\b', 'BASEPAIR', text, flags=re.IGNORECASE)
ReplaceBasePairs ==
    /\ bpc = "bp"
    /\ simplified_bio_text' = ReSub(BasePairPattern, BASEPAIR, simplified_bio_text)
    /\ bpc' = "positions"
    /\ UNCHANGED <<text_for_accession, simplified_text>>
    /\ UNCHANGED <<splitVars, dateVars, corrVars, noiseVars, catVars, apiVars, pipeVars>>

\* text = re.sub(r'positions \d+\s*to\s*\d+', 'POSITION_RANGE', text, flags=re.IGNORECASE)
ReplacePositions ==
    /\ bpc = "positions"
    /\ simplified_bio_text' = ReSub(PositionsPattern, POSITION_RANGE, simplified_bio_text)
    /\ bpc' = "long_words"
    /\ UNCHANGED <<text_for_accession, simplified_text>>
    /\ UNCHANGED <<splitVars, dateVars, corrVars, noiseVars, catVars, apiVars, pipeVars>>

\* simplified_text = simplify_long_words(simplified_bio_text, max_length=20)
SimplifyLongWords ==
    /\ bpc = "long_words"
    /\ simplified_text' = simplify_long_words(simplified_bio_text, MAX_LENGTH)
    /\ bpc' = "done"
    /\ UNCHANGED <<text_for_accession, simplified_bio_text>>
    /\ UNCHANGED <<splitVars, dateVars, corrVars, noiseVars, catVars, apiVars, pipeVars>>

NextRedaction == ReplaceSeqIds \/ ReplaceBasePairs \/ ReplacePositions \/ SimplifyLongWords

SpecRedaction == InitRedaction /\ [][NextRedaction]_vars

Placeholders == {SEQUENCE_ID, BASEPAIR, POSITION_RANGE}

\* C24: every SEQUENCE_ID, BASEPAIR and POSITION_RANGE that simplify_bio_numbers
\* produced is still in the text after simplify_long_words: FORMULA never
\* takes the place of a word that holds one of them
C24_PlaceholdersKept ==
    bpc = "done" =>
        \A p \in Placeholders :
            OccurrencesOf(p, simplified_text) = OccurrencesOf(p, simplified_bio_text)

(***************************************************************************)
(* citation_catalog.CitationCatalog: three lists of citations, one counter *)
(* for the ids, and the keys of the NPL references already stored.         *)
(***************************************************************************)
\* def _safe_str(value): the parameters as declared in the class body
safe_str_parameters == <<"value">>

\* self._safe_str(v): a call through the instance passes the instance first
BoundArguments(v) == <<<<"self">>, v>>

\* TypeError: _safe_str() takes 1 positional argument but 2 were given
safe_str_raises(v) == Len(BoundArguments(v)) > Len(safe_str_parameters)

\* str(value) if value is not None else ""
safe_str(value) == IF value # None THEN value ELSE <<>>

\* ", ".join(authors)
RECURSIVE JoinAuthors(_)
JoinAuthors(authors) ==
    IF Len(authors) = 0 THEN <<>>
    ELSE IF Len(authors) = 1 THEN authors[1]
    ELSE authors[1] \o <<",", " ">> \o JoinAuthors(Tail(authors))

\* the unique key of add_npl_reference
citation_key(reference_data) ==
    <<Strip(Lowered(Strip(JoinAuthors(reference_data.author)))),
      Strip(Lowered(safe_str(reference_data.title))),
      Strip(Lowered(safe_str(reference_data.publisher))),
      Strip(Lowered(safe_str(reference_data.publication_date)))>>

\* f"ref-ncit{current_seq_num:04d}"
RefPrefix == <<"r", "e", "f", "-", "n", "c", "i", "t">>

citation_id(current_seq_num) == RefPrefix \o FormatField(current_seq_num, 4)

\* f"ncit{current_seq_num:04d}"
default_crossref_id(current_seq_num) == <<"n", "c", "i", "t">> \o FormatField(current_seq_num, 4)

\* variant: the counter stays where it is
NextCounter_Stuck(n) == n

\* self._npl_counter += 1
NextCounter(n) == n + 1

\* str.upper()
Uppered(w) == [i \in 1..Len(w) |-> UpperOf(w[i])]

CAS == <<"C", "A", "S">>

\* a call that raises leaves the catalog as it was
Raised(op, arg, exception) ==
    /\ last_call' = [op |-> op, arg |-> arg, ret |-> <<>>, raised |-> exception]
    /\ UNCHANGED <<npl_citations, accession_citations, standard_citations,
                   npl_counter, npl_unique_keys, insertions>>

\* add_npl_reference(reference_data, paragraph_num)
add_npl_reference(reference_data) ==
    /\ ncalls' = ncalls + 1
    /\ IF \/ safe_str_raises(reference_data.title)
          \/ safe_str_raises(reference_data.publisher)
          \/ safe_str_raises(reference_data.publication_date)
       THEN Raised("add_npl_reference", reference_data, "TypeError")
       ELSE IF citation_key(reference_data) \in npl_unique_keys
       THEN /\ last_call' = [op |-> "add_npl_reference", arg |-> reference_data,
                             ret |-> None, raised |-> ""]
            /\ UNCHANGED <<npl_citations, accession_citations, standard_citations,
                           npl_counter, npl_unique_keys, insertions>>
       ELSE /\ npl_unique_keys' = npl_unique_keys \cup {citation_key(reference_data)}
            /\ npl_counter' = NextCounter(npl_counter)
            /\ npl_citations' = Append(npl_citations,
                   [id |-> citation_id(npl_counter),
                    crossrefid |-> default_crossref_id(npl_counter),
                    citation_type |-> "article",
                    authors |-> reference_data.author,
                    title |-> reference_data.title,
                    serial_title |-> reference_data.publisher,
                    publication_date |-> reference_data.publication_date])
            /\ insertions' = Append(insertions, citation_id(npl_counter))
            /\ last_call' = [op |-> "add_npl_reference", arg |-> reference_data,
                             ret |-> citation_id(npl_counter), raised |-> ""]
            /\ UNCHANGED <<accession_citations, standard_citations>>
    /\ UNCHANGED all_citations

\* add_accession(accession_data, paragraph_num); None.upper() raises AttributeError
add_accession(accession_data) ==
    /\ ncalls' = ncalls + 1
    /\ IF accession_data.type = None
       THEN Raised("add_accession", accession_data, "AttributeError")
       ELSE /\ npl_counter' = NextCounter(npl_counter)
            /\ accession_citations' = Append(accession_citations,
                   IF Uppered(accession_data.type) = CAS
                   THEN [id |-> citation_id(npl_counter),
                         crossrefid |-> default_crossref_id(npl_counter),
                         npl_type |-> "s", citation_type |-> "cas_number",
                         accession_number |-> <<>>, ino |-> accession_data.id]
                   ELSE [id |-> citation_id(npl_counter),
                         crossrefid |-> default_crossref_id(npl_counter),
                         npl_type |-> "e", citation_type |-> "online",
                         accession_number |-> accession_data.id,
                         online_title |-> accession_data.type])
            /\ insertions' = Append(insertions, citation_id(npl_counter))
            /\ last_call' = [op |-> "add_accession", arg |-> accession_data,
                             ret |-> citation_id(npl_counter), raised |-> ""]
            /\ UNCHANGED <<npl_citations, standard_citations, npl_unique_keys>>
    /\ UNCHANGED all_citations

\* add_standard(standard_data, paragraph_num)
add_standard(standard_data) ==
    /\ ncalls' = ncalls + 1
    /\ npl_counter' = NextCounter(npl_counter)
    /\ standard_citations' = Append(standard_citations,
           [id |-> citation_id(npl_counter),
            crossrefid |-> default_crossref_id(npl_counter),
            npl_type |-> "s", citation_type |-> "standard_article",
            title |-> standard_data.title])
    /\ insertions' = Append(insertions, citation_id(npl_counter))
    /\ last_call' = [op |-> "add_standard", arg |-> standard_data,
                     ret |-> citation_id(npl_counter), raised |-> ""]
    /\ UNCHANGED <<npl_citations, accession_citations, npl_unique_keys, all_citations>>

\* int(citation["id"].replace("ref-ncit", ""))
IdKey(citation) == ToInt(ReSub(Lit(RefPrefix), <<>>, citation.id))

\* list.sort(key=...): stable, ascending
RECURSIVE InsertByKey(_, _)
InsertByKey(sorted, c) ==
    IF Len(sorted) = 0 THEN <<c>>
    ELSE IF IdKey(sorted[Len(sorted)]) <= IdKey(c) THEN Append(sorted, c)
    ELSE Append(InsertByKey(SubSeq(sorted, 1, Len(sorted) - 1), c), sorted[Len(sorted)])

RECURSIVE SortedById(_)
SortedById(l) ==
    IF Len(l) = 0 THEN <<>>
    ELSE InsertByKey(SortedById(SubSeq(l, 1, Len(l) - 1)), l[Len(l)])

\* get_all_citations()
get_all_citations ==
    /\ ncalls' = ncalls + 1
    /\ all_citations' = SortedById(npl_citations \o accession_citations \o standard_citations)
    /\ last_call' = [op |-> "get_all_citations", arg |-> <<>>, ret |-> <<>>, raised |-> ""]
    /\ UNCHANGED <<npl_citations, accession_citations, standard_citations,
                   npl_counter, npl_unique_keys, insertions>>

MaxCatalogCalls == 4

Smith == <<"S", "m", "i", "t", "h">>

CatalogReferences ==
    [author : {<<>>, <<Smith>>},
     title : {None, <<"N", "a", "t", "u", "r", "e">>, <<" ", "n", "a", "t", "u", "r", "e", " ">>},
     publisher : {<<>>},
     publication_date : {None, <<"2", "0", "2", "0">>}]

CatalogAccessions == [type : {None, CAS, <<"c", "a", "s">>, <<"U", "n", "i", "p", "r", "o", "t">>}, id : {<<"5", "0", "-", "0", "0", "-", "0">>}]

CatalogStandards == [title : {<<>>, <<"T", "S", " ", "2", "3", ".", "5", "0", "1">>}]

InitCatalog ==
    /\ NewCatalog
    /\ SplitIdle
    /\ DateIdle
    /\ CorrIdle
    /\ NoiseIdle
    /\ BioIdle
    /\ ApiIdle
    /\ PipeIdle

OtherThanCatalog == <<splitVars, dateVars, corrVars, noiseVars, bioVars, apiVars, pipeVars>>

AddNplReference ==
    /\ ncalls < MaxCatalogCalls
    /\ \E reference_data \in CatalogReferences : add_npl_reference(reference_data)
    /\ UNCHANGED OtherThanCatalog

AddAccession ==
    /\ ncalls < MaxCatalogCalls
    /\ \E accession_data \in CatalogAccessions : add_accession(accession_data)
    /\ UNCHANGED OtherThanCatalog

AddStandard ==
    /\ ncalls < MaxCatalogCalls
    /\ \E standard_data \in CatalogStandards : add_standard(standard_data)
    /\ UNCHANGED OtherThanCatalog

GetAllCitations ==
    /\ ncalls < MaxCatalogCalls
    /\ get_all_citations
    /\ UNCHANGED OtherThanCatalog

NextCatalog == AddNplReference \/ AddAccession \/ AddStandard \/ GetAllCitations

SpecCatalog == InitCatalog /\ [][NextCatalog]_vars

\* C28: add_npl_reference with a key that is not yet in the catalog completes
\* normally, appends exactly one citation and returns its id; with a key
\* already present it appends nothing, returns None and leaves the counter
C28_Deduplicates ==
    [][(ncalls' = ncalls + 1 /\ last_call'.op = "add_npl_reference") =>
          /\ last_call'.raised = ""
          /\ IF citation_key(last_call'.arg) \notin npl_unique_keys
             THEN /\ Len(npl_citations') = Len(npl_citations) + 1
                  /\ SubSeq(npl_citations', 1, Len(npl_citations)) = npl_citations
                  /\ last_call'.ret = npl_citations'[Len(npl_citations')].id
             ELSE /\ npl_citations' = npl_citations
                  /\ last_call'.ret = None
                  /\ npl_counter' = npl_counter]_vars

AllStored == npl_citations \o accession_citations \o standard_citations

IdsOf(citations) == [i \in 1..Len(citations) |-> citations[i].id]

MAX_RETRIES == 3

INITIAL_DELAY == 1

\* 2 ** n
RECURSIVE Pow2(_)
Pow2(n) == IF n = 0 THEN 1 ELSE 2 * Pow2(n - 1)

\* the payloads of the callers
Payloads == {<<"h", "e", "l", "l", "o">>, <<"E", "x", "t", "r", "a", "c", "t">>}

\* what the server may answer: a status and a body
StatusCodes == {200, 404, 500}

JsonObject == <<"{", "\"", "c", "h", "o", "i", "c", "e", "s", "\"", ":", " ", "[", "]", "}">>

JsonNull == <<"n", "u", "l", "l">>

NotJson == <<"<", "h", "t", "m", "l", ">">>

Bodies == {JsonObject, JsonNull, NotJson}

\* requests.post raises instead of returning a response
PostFailures == {"ConnectionError", "Timeout"}

\* response.json(): the decoded body; null decodes to None
Decoded(body) == IF body = JsonNull THEN None ELSE <<"dict", body>>

\* response.json() raises on a body that is no JSON document
DecodeRaises(body) == body = NotJson

\* response.raise_for_status() raises HTTPError
IsErrorStatus(status_code) == status_code >= 400 /\ status_code < 600

\* variant: every failed attempt is followed by a sleep
MayRetry_Always(n) == TRUE

\* if attempt < MAX_RETRIES - 1
MayRetry(n) == n < MAX_RETRIES - 1

InitApi ==
    /\ payload \in Payloads
    /\ attempt = 0 - 1
    /\ qpc = "for"
    /\ posts = 0
    /\ sleeps = <<>>
    /\ response = NoResponse
    /\ outcomes = <<>>
    /\ api_ret = <<>>
    /\ api_exc = ""
    /\ SplitIdle
    /\ DateIdle
    /\ CorrIdle
    /\ NoiseIdle
    /\ BioIdle
    /\ NewCatalog
    /\ PipeIdle

OtherThanApi == <<splitVars, dateVars, corrVars, noiseVars, bioVars, catVars, pipeVars>>

\* for attempt in range(MAX_RETRIES), and the return None after the loop
ForAttempt ==
    /\ qpc = "for"
    /\ IF attempt + 1 < MAX_RETRIES
       THEN /\ attempt' = attempt + 1
            /\ qpc' = "post"
            /\ UNCHANGED api_ret
       ELSE /\ qpc' = "fell_through"
            /\ api_ret' = None
            /\ UNCHANGED attempt
    /\ UNCHANGED <<payload, posts, sleeps, response, outcomes, api_exc>>
    /\ UNCHANGED OtherThanApi

\* response = requests.post(...): the server answers
PostAnswered ==
    /\ qpc = "post"
    /\ posts' = posts + 1
    /\ \E status_code \in StatusCodes, body \in Bodies :
           response' = [status_code |-> status_code, body |-> body]
    /\ qpc' = "raise_for_status"
    /\ UNCHANGED <<payload, attempt, sleeps, outcomes, api_ret, api_exc>>
    /\ UNCHANGED OtherThanApi

\* requests.post raises a RequestException that is no HTTPError
PostFails ==
    /\ qpc = "post"
    /\ posts' = posts + 1
    /\ \E e \in PostFailures : api_exc' = e
    /\ qpc' = "except_request"
    /\ UNCHANGED <<payload, attempt, sleeps, response, outcomes, api_ret>>
    /\ UNCHANGED OtherThanApi

\* response.raise_for_status(); except HTTPError: raise HTTPError(...)
RaiseForStatus ==
    /\ qpc = "raise_for_status"
    /\ IF IsErrorStatus(response.status_code)
       THEN /\ api_exc' = "HTTPError"
            /\ outcomes' = Append(outcomes, "http_error")
            /\ qpc' = "raised"
       ELSE /\ qpc' = "json"
            /\ UNCHANGED <<api_exc, outcomes>>
    /\ UNCHANGED <<payload, attempt, posts, sleeps, response, api_ret>>
    /\ UNCHANGED OtherThanApi

\* return response.json()
ReturnJson ==
    /\ qpc = "json"
    /\ ~DecodeRaises(response.body)
    /\ api_ret' = Decoded(response.body)
    /\ outcomes' = Append(outcomes, "ok")
    /\ qpc' = "returned"
    /\ UNCHANGED <<payload, attempt, posts, sleeps, response, api_exc>>
    /\ UNCHANGED OtherThanApi

\* response.json() raises requests.exceptions.JSONDecodeError, a RequestException
JsonFailsAsRequestException ==
    /\ qpc = "json"
    /\ DecodeRaises(response.body)
    /\ api_exc' = "JSONDecodeError"
    /\ qpc' = "except_request"
    /\ UNCHANGED <<payload, attempt, posts, sleeps, response, outcomes, api_ret>>
    /\ UNCHANGED OtherThanApi

\* response.json() raises a ValueError that no except clause catches (the
\* requests releases before 2.27)
JsonFailsAsValueError ==
    /\ qpc = "json"
    /\ DecodeRaises(response.body)
    /\ api_exc' = "ValueError"
    /\ outcomes' = Append(outcomes, "error")
    /\ qpc' = "raised"
    /\ UNCHANGED <<payload, attempt, posts, sleeps, response, api_ret>>
    /\ UNCHANGED OtherThanApi

\* except RequestException: sleep and go on, or raise after the last attempt
ExceptRequest ==
    /\ qpc = "except_request"
    /\ outcomes' = Append(outcomes, "request_failure")
    /\ IF MayRetry(attempt)
       THEN /\ sleeps' = Append(sleeps, INITIAL_DELAY * Pow2(attempt))
            /\ qpc' = "for"
            /\ api_exc' = ""
       ELSE /\ api_exc' = "Exception"
            /\ qpc' = "raised"
            /\ UNCHANGED sleeps
    /\ UNCHANGED <<payload, attempt, posts, response, api_ret>>
    /\ UNCHANGED OtherThanApi

NextApi ==
    \/ ForAttempt
    \/ PostAnswered
    \/ PostFails
    \/ RaiseForStatus
    \/ ReturnJson
    \/ JsonFailsAsRequestException
    \/ JsonFailsAsValueError
    \/ ExceptRequest

SpecApi == InitApi /\ [][NextApi]_vars

\* the attempts, the sleeps between them and the end of the call
RetryDiscipline ==
    /\ posts <= MAX_RETRIES
    /\ posts <= Len(sleeps) + 1
    /\ \A k \in 1..Len(sleeps) :
          /\ outcomes[k] = "request_failure"
          /\ sleeps[k] = INITIAL_DELAY * Pow2(k - 1)
    /\ \A k \in 1..Len(outcomes) :
          outcomes[k] = "http_error" =>
              k = Len(outcomes) /\ qpc = "raised" /\ api_exc = "HTTPError" /\ posts = k
    /\ (qpc = "raised" /\ api_exc = "Exception") =>
          /\ posts = MAX_RETRIES
          /\ Len(sleeps) = MAX_RETRIES - 1
          /\ Len(outcomes) = MAX_RETRIES
    /\ qpc # "fell_through"
    /\ qpc = "returned" => api_ret = Decoded(response.body)

\* C30 as stated: at most MAX_RETRIES attempts, a further one only after a
\* request failure that is no HTTP error and a sleep of INITIAL_DELAY * 2^attempt,
\* an HTTP error raised at once, no sleep after the last failure, and the
\* call never returns None
C30_RetryAsStated ==
    /\ RetryDiscipline
    /\ qpc = "returned" => api_ret # None

\* C30: the same, where the call returns None only as the decoded response
\* of a body that is JSON null, never by leaving the loop
C30_Retry ==
    /\ RetryDiscipline
    /\ (qpc = "returned" /\ api_ret = None) => response.body = JsonNull

\* two attempts failed and were slept after, the third has failed too
C30_Witness ==
    /\ qpc = "raised"
    /\ api_exc = "Exception"
    /\ posts = MAX_RETRIES
    /\ sleeps = <<INITIAL_DELAY, 2 * INITIAL_DELAY>>

(***************************************************************************)
(* citation_filters.should_skip_npl_reference.                             *)
(***************************************************************************)
\* r'(GCA|GCF)_\d{9}\.\d+'
ASSEMBLY_ACCESSION_REGEX ==
    Cat(<<Alt(<<Lit(<<"G", "C", "A">>), Lit(<<"G", "C", "F">>)>>), Lit(<<"_">>),
          Rep(Ch(DigitAny), 9, 9), Lit(<<".">>), Plus(Ch(DigitAny))>>)

\* r'\b(?:3GPP|IEEE)\b', re.IGNORECASE
STANDARDS_BODIES_REGEX ==
    IgnoreCase(Cat(<<WordB, Alt(<<Lit(<<"3", "G", "P", "P">>), Lit(<<"I", "E", "E", "E">>)>>),
                     WordB>>))

\* has_content of a string
has_content(value) == Strip(value) # <<>>

\* has_content of a list: any(item and item.strip() for item in value)
has_content_list(value) == \E i \in 1..Len(value) : Strip(value[i]) # <<>>

PatentWord == <<"p", "a", "t", "e", "n", "t">>

USSerial == <<"U", ".", "S", ".", " ", "S", "e", "r", "i", "a", "l">>

\* Condition 9 on the title
PatentInTitle(t) ==
    \/ Contains(t, USSerial)
    \/ /\ Contains(Lowered(t), PatentWord)
       /\ ~(Contains(Lowered(t), <<"n", "o", "n", "-", "p", "a", "t", "e", "n", "t">>) \/ Contains(Lowered(t), <<"n", "o", "n", " ", "p", "a", "t", "e", "n", "t">>))

\* none of publisher, volume, pages and url has content
NothingElse(ref) ==
    /\ ~has_content(StripOrEmpty(ref.publisher))
    /\ ~has_content(StripOrEmpty(ref.volume))
    /\ ~has_content(StripOrEmpty(ref.pages))
    /\ ~has_content(StripOrEmpty(ref.url))

\* none of volume, pages and url has content
NoVolumePagesUrl(ref) ==
    /\ ~has_content(StripOrEmpty(ref.volume))
    /\ ~has_content(StripOrEmpty(ref.pages))
    /\ ~has_content(StripOrEmpty(ref.url))

is_bare_citation(ref) ==
    /\ has_content_list(ref.author)
    /\ has_content(StripOrEmpty(ref.publication_date))
    /\ NothingElse(ref)

\* should_skip_npl_reference(ref): Conditions 10, 9, 8, 7, 6, 5, 4, 3, 2 and 1
should_skip_npl_reference(ref) ==
    \/ /\ has_content(StripOrEmpty(ref.publisher))
       /\ Search(ASSEMBLY_ACCESSION_REGEX, StripOrEmpty(ref.publisher)).ok
    \/ /\ has_content(StripOrEmpty(ref.title))
       /\ Search(ASSEMBLY_ACCESSION_REGEX, StripOrEmpty(ref.title)).ok
    \/ /\ has_content(StripOrEmpty(ref.publisher))
       /\ \/ Contains(Lowered(StripOrEmpty(ref.publisher)), PatentWord)
          \/ Contains(StripOrEmpty(ref.publisher), USSerial)
    \/ /\ has_content(StripOrEmpty(ref.title))
       /\ PatentInTitle(StripOrEmpty(ref.title))
    \/ /\ has_content(StripOrEmpty(ref.publication_date))
       /\ Search(STANDARDS_BODIES_REGEX, StripOrEmpty(ref.publication_date)).ok
    \/ /\ has_content(StripOrEmpty(ref.publisher))
       /\ Search(STANDARDS_BODIES_REGEX, StripOrEmpty(ref.publisher)).ok
    \/ /\ ~has_content_list(ref.author)
       /\ has_content(StripOrEmpty(ref.title))
       /\ ~has_content(StripOrEmpty(ref.publication_date))
       /\ NothingElse(ref)
    \/ /\ has_content(StripOrEmpty(ref.publisher))
       /\ has_content(StripOrEmpty(ref.publication_date))
       /\ ~has_content_list(ref.author)
       /\ ~has_content(StripOrEmpty(ref.title))
       /\ NoVolumePagesUrl(ref)
    \/ /\ ~has_content_list(ref.author)
       /\ ~has_content(StripOrEmpty(ref.title))
       /\ ~has_content(StripOrEmpty(ref.publication_date))
       /\ NothingElse(ref)
    \/ /\ ~has_content_list(ref.author)
       /\ ~has_content(StripOrEmpty(ref.title))
       /\ has_content(StripOrEmpty(ref.publication_date))
       /\ NothingElse(ref)
    \/ /\ is_bare_citation(ref)
       /\ has_content(StripOrEmpty(ref.title))
       /\ Contains(Lowered(StripOrEmpty(ref.title)), Lowered(Strip(JoinAuthors(ref.author))))
    \/ /\ is_bare_citation(ref)
       /\ ~has_content(StripOrEmpty(ref.title))

(***************************************************************************)
(* The NPL step of extract_paragraphs for one text part: every reference   *)
(* of the LLM's answer is corrected and filtered, and the references kept  *)
(* are added to the catalog.                                               *)
(***************************************************************************)
MaxRefs == 2

Ref(author, t, publisher, date, volume) ==
    [author |-> author, title |-> t, publisher |-> publisher, url |-> None,
     publication_date |-> date, volume |-> volume, pages |-> None]

\* the records the LLM may return
LlmReferences ==
    {Ref(<<Smith>>, <<"D", "e", "e", "p", " ", "n", "e", "t", "s">>, <<"A", "C", "M">>, <<"2", "0", "2", "0", "-", "0", "1", "-", "0", "9">>, <<"1", "2">>),
     Ref(<<>>, <<"N", "a", "t", "u", "r", "e">>, None, None, None),
     Ref(<<Smith>>, None, None, <<" ", "2", "0", "1", "8">>, None),
     Ref(<<Smith>>, <<"A", " ", "p", "a", "t", "e", "n", "t">>, <<"W", "i", "l", "e", "y">>, None, None),
     Ref(<<>>, None, <<"I", "E", "E", "E">>, <<"2", "0", "2", "0", "-", "0", "1", "-", "0", "9">>, <<"1", "2">>),
     Ref(<<Smith>>, None, <<"A", "C", "M">>, <<" ", "2", "0", "1", "8">>, None),
     Ref(<<>>, None, None, None, None)}

RECURSIVE ReferenceLists(_)
ReferenceLists(n) ==
    IF n = 0 THEN {<<>>}
    ELSE LET shorter == ReferenceLists(n - 1)
         IN  shorter \cup {Append(l, r) : l \in shorter, r \in LlmReferences}

InitPipeline ==
    /\ npl_data \in {NoData} \cup {[ok |-> TRUE, references |-> l] : l \in ReferenceLists(MaxRefs)}
    /\ ref_index = 0
    /\ all_references_to_add = <<>>
    /\ add_index = 0
    /\ ppc = "check"
    /\ calls = <<>>
    /\ SplitIdle
    /\ DateIdle
    /\ CorrIdle
    /\ NoiseIdle
    /\ BioIdle
    /\ NewCatalog
    /\ ApiIdle

OtherThanPipeline == <<splitVars, dateVars, noiseVars, bioVars, apiVars>>

\* variant: every reference is kept
Kept_Always(skip) == TRUE

\* if should_skip_npl_reference(ref): continue
Kept(skip) == ~skip

\* if isinstance(npl_data, dict) and "references" in npl_data
CheckData ==
    /\ ppc = "check"
    /\ ppc' = IF npl_data.ok THEN "for_ref" ELSE "done"
    /\ UNCHANGED <<npl_data, ref_index, all_references_to_add, add_index, calls>>
    /\ UNCHANGED <<corrVars, catVars>>
    /\ UNCHANGED OtherThanPipeline

\* for ref in npl_data["references"]: correct_npl_mistakes(ref) is called
NextReference ==
    /\ ppc = "for_ref"
    /\ IF ref_index < Len(npl_data.references)
       THEN /\ ref_index' = ref_index + 1
            /\ reference' = npl_data.references[ref_index + 1]
            /\ entry' = npl_data.references[ref_index + 1]
            /\ title' = <<>>
            /\ url' = <<>>
            /\ corrected' = FALSE
            /\ cpc' = "call"
            /\ ppc' = "correcting"
       ELSE /\ ppc' = "for_add"
            /\ UNCHANGED <<ref_index, reference, entry, title, url, corrected, cpc>>
    /\ UNCHANGED <<npl_data, all_references_to_add, add_index, calls, passes>>
    /\ UNCHANGED catVars
    /\ UNCHANGED OtherThanPipeline

\* correct_npl_mistakes(ref) has returned: the record of the list is the corrected one
CorrectReturned ==
    /\ ppc = "correcting"
    /\ cpc \in {"done", "raised"}
    /\ IF cpc = "raised"
       THEN /\ ppc' = "aborted"
            /\ UNCHANGED <<npl_data, calls>>
       ELSE /\ npl_data' = [npl_data EXCEPT !.references[ref_index] = reference]
            /\ calls' = Append(calls, [fn |-> "correct_npl_mistakes", i |-> ref_index,
                                       arg |-> entry, result |-> reference, ret |-> corrected])
            /\ ppc' = "filter"
    /\ UNCHANGED <<ref_index, all_references_to_add, add_index>>
    /\ UNCHANGED <<corrVars, catVars>>
    /\ UNCHANGED OtherThanPipeline

\* if should_skip_npl_reference(ref): continue; all_references_to_add.append(ref)
FilterReference ==
    /\ ppc = "filter"
    /\ calls' = Append(calls, [fn |-> "should_skip_npl_reference", i |-> ref_index,
                               arg |-> npl_data.references[ref_index],
                               result |-> npl_data.references[ref_index],
                               ret |-> should_skip_npl_reference(npl_data.references[ref_index])])
    /\ all_references_to_add' =
           IF Kept(should_skip_npl_reference(npl_data.references[ref_index]))
           THEN Append(all_references_to_add, ref_index)
           ELSE all_references_to_add
    /\ ppc' = "for_ref"
    /\ UNCHANGED <<npl_data, ref_index, add_index>>
    /\ UNCHANGED <<corrVars, catVars>>
    /\ UNCHANGED OtherThanPipeline

\* for ref in all_references_to_add: catalog.add_npl_reference(ref, part_num);
\* an exception ends the processing of the file
AddReference ==
    /\ ppc = "for_add"
    /\ IF add_index < Len(all_references_to_add)
       THEN /\ add_npl_reference(npl_data.references[all_references_to_add[add_index + 1]])
            /\ calls' = Append(calls, [fn |-> "add_npl_reference",
                                       i |-> all_references_to_add[add_index + 1],
                                       arg |-> npl_data.references[all_references_to_add[add_index + 1]],
                                       result |-> npl_data.references[all_references_to_add[add_index + 1]],
                                       ret |-> FALSE])
            /\ add_index' = add_index + 1
            /\ ppc' = IF last_call'.raised # "" THEN "aborted" ELSE "for_add"
       ELSE /\ ppc' = "done"
            /\ UNCHANGED <<add_index, calls, catVars>>
    /\ UNCHANGED <<npl_data, ref_index, all_references_to_add>>
    /\ UNCHANGED corrVars
    /\ UNCHANGED OtherThanPipeline

NextPipeline ==
    \/ CheckData
    \/ NextReference
    \/ Heuristic1
    \/ Heuristic2and3
    \/ Heuristic4
    \/ Heuristic5
    \/ Heuristic6
    \/ Heuristic7
    \/ Heuristic8
    \/ ReturnCorrected
    \/ CorrectReturned
    \/ FilterReference
    \/ AddReference

SpecPipeline == InitPipeline /\ [][NextPipeline]_vars

CallsOf(fn, i) == {k \in 1..Len(calls) : calls[k].fn = fn /\ calls[k].i = i}

\* C25: every record is corrected and then filtered, the filter sees the
\* corrected record, and add_npl_reference is called only with records for
\* which the filter returned False: a skipped record never reaches the catalog
C25_CorrectFilterAdd ==
    /\ \A k \in 1..Len(calls) :
          calls[k].fn = "should_skip_npl_reference" =>
              /\ k > 1
              /\ calls[k - 1].fn = "correct_npl_mistakes"
              /\ calls[k - 1].i = calls[k].i
              /\ calls[k].arg = calls[k - 1].result
    /\ \A k \in 1..Len(calls) :
          calls[k].fn = "add_npl_reference" =>
              /\ \E j \in 1..(k - 1) :
                    /\ calls[j].fn = "should_skip_npl_reference"
                    /\ calls[j].i = calls[k].i
                    /\ calls[j].ret = FALSE
                    /\ calls[j].arg = calls[k].arg
              /\ \A j \in 1..Len(calls) :
                    (calls[j].fn = "should_skip_npl_reference" /\ calls[j].i = calls[k].i)
                        => calls[j].ret = FALSE
    /\ ppc \in {"for_add", "done", "aborted"} /\ npl_data.ok =>
          \A i \in 1..Len(npl_data.references) :
              /\ Cardinality(CallsOf("correct_npl_mistakes", i)) = 1
              /\ Cardinality(CallsOf("should_skip_npl_reference", i)) = 1

\* a record that the correction changed was kept by the filter and handed to
\* the catalog, after another record was skipped
C25_Witness ==
    /\ \E k \in 1..Len(calls) :
          /\ calls[k].fn = "add_npl_reference"
          /\ \E j \in 1..(k - 1) :
                /\ calls[j].fn = "correct_npl_mistakes"
                /\ calls[j].i = calls[k].i
                /\ calls[j].arg # calls[j].result
    /\ \E k \in 1..Len(calls) :
          calls[k].fn = "should_skip_npl_reference" /\ calls[k].ret = TRUE

=============================================================================
